---------------------------- MODULE MCChannelTurns ----------------------------
(* Instances of ChannelTurns for TLC.                                       *)
EXTENDS ChannelTurns, TLC

CONSTANTS m1, m2, c1, c2, api, job, skill, chat

(* A scheduled job holds a lease and runs its skill inside.                 *)
JobOfSkill == [t \in {skill} |-> job]

(* The requests over the API belong to the conversation of the chat.        *)
OneConversation == [t \in Turn |-> IF t \in {chat, api} THEN "talk" ELSE "work"]

(* Until the first answer is under way everything is interleaved with       *)
(* everything; from then on other turns and canceled channels are out.      *)
Answering == outbox # {} \/ \E a \in Answer : ledger[a] # "none"

QuietWhenAnswering ==
  Answering =>
    /\ \A t \in Turn \ {Chat} : stage[t] = "out"
    /\ \A c \in Instance : life[c] # "stopping"
    /\ ~removing

Symmetry == Permutations(Instance)
==============================================================================
