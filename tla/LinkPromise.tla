------------------------------ MODULE LinkPromise ------------------------------
(* What the server promises about one encrypted link, without tables, blobs,   *)
(* transactions or sweeps (packages/server-store/src/interfaces.ts):           *)
(*   - a link is consumed only while it is live, each open once, never more    *)
(*     often than its budget;                                                  *)
(*   - the open that spends the budget, a revocation and an operator purge     *)
(*     erase the ciphertext in the very step that closes the link;             *)
(*   - a link that closes by time keeps its ciphertext until a later erasure;  *)
(*   - nothing that was closed comes back.                                     *)
EXTENDS Integers, FiniteSets

CONSTANTS
  Links,    \* the links that may ever be created
  Opens     \* the open requests that may ever be made

VARIABLES
  phase,    \* phase[l] of every link
  budget,   \* budget[l]: how many opens its sender allowed (-1: any number)
  used      \* used[l]: the opens that consumed it

pvars == <<phase, budget, used>>

Phases == {"unsent", "live", "closed", "erased"}

PromiseInit ==
  /\ phase = [l \in Links |-> "unsent"]
  /\ budget = [l \in Links |-> 0]
  /\ used = [l \in Links |-> {}]

\* The sender's link starts to exist, with the budget the sender chose.
Send(l) ==
  /\ phase[l] = "unsent"
  /\ phase' = [phase EXCEPT ![l] = "live"]
  /\ budget' \in [Links -> Int]
  /\ \A k \in Links \ {l} : budget'[k] = budget[k]
  /\ UNCHANGED used

\* One open is consumed; the one that reaches the budget erases the link.
Consume(l, o) ==
  /\ phase[l] = "live"
  /\ \A k \in Links : o \notin used[k]
  /\ used' = [used EXCEPT ![l] = @ \cup {o}]
  /\ LET spent == Cardinality(used[l]) + 1
     IN  /\ budget[l] # -1 => spent <= budget[l]
         /\ phase' = [phase EXCEPT ![l] = IF spent = budget[l] THEN "erased" ELSE @]
  /\ UNCHANGED budget

\* Revocation, or the operator's purge.
Withdraw(l) ==
  /\ phase[l] = "live"
  /\ phase' = [phase EXCEPT ![l] = "erased"]
  /\ UNCHANGED <<budget, used>>

\* A sweep closes any number of links at once, and erases any number of closed ones.
Expire(S) ==
  /\ \A l \in S : phase[l] = "live"
  /\ phase' = [l \in Links |-> IF l \in S THEN "closed" ELSE phase[l]]
  /\ UNCHANGED <<budget, used>>

Erase(S) ==
  /\ \A l \in S : phase[l] = "closed"
  /\ phase' = [l \in Links |-> IF l \in S THEN "erased" ELSE phase[l]]
  /\ UNCHANGED <<budget, used>>

PromiseNext ==
  \/ \E S \in SUBSET Links : Expire(S) \/ Erase(S)
  \/ \E l \in Links : Send(l) \/ Withdraw(l)
  \/ \E l \in Links, o \in Opens : Consume(l, o)

PromiseSpec == PromiseInit /\ [][PromiseNext]_pvars
================================================================================
