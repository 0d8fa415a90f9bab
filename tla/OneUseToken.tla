------------------------------ MODULE OneUseToken ------------------------------
(* What a confirmation token promises: it is minted once, then either spent    *)
(* once or withdrawn unspent, and nothing brings it back.                      *)
CONSTANT Tokens

VARIABLES
  token,  \* [Tokens -> "absent", "open", "spent" or "withdrawn"]
  uses    \* [Tokens -> number of mutations it has admitted]

vars == <<token, uses>>

Init ==
  /\ token = [t \in Tokens |-> "absent"]
  /\ uses = [t \in Tokens |-> 0]

Mint(t) ==
  /\ token[t] = "absent"
  /\ token' = [token EXCEPT ![t] = "open"]
  /\ UNCHANGED uses

Spend(t) ==
  /\ token[t] = "open"
  /\ token' = [token EXCEPT ![t] = "spent"]
  /\ uses' = [uses EXCEPT ![t] = 1]

Withdraw(t) ==
  /\ token[t] = "open"
  /\ token' = [token EXCEPT ![t] = "withdrawn"]
  /\ UNCHANGED uses

Next == \E t \in Tokens : Mint(t) \/ Spend(t) \/ Withdraw(t)

Spec == Init /\ [][Next]_vars

===============================================================================
