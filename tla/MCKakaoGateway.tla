-------------------------- MODULE MCKakaoGateway --------------------------
(* A small instance of KakaoGateway for TLC.                               *)
EXTENDS KakaoGateway

CONSTANTS m1, m2

(* Messages are alike, so the second webhook comes in after the first; and *)
(* only the first answer is too long for one chunk.                        *)
InOrderNext ==
  /\ Next
  /\ hook'[m2] # "none" => hook[m1] # "none"
  /\ parts'[m2] <= 1

InOrderFairSpec == Init /\ [][InOrderNext]_vars /\ Fairness
=============================================================================
