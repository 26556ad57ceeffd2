----------------------------- MODULE ConfigHistory -----------------------------
(***************************************************************************)
(* The instance of MCGray with a memory of the request ids that took       *)
(* effect and of the gray numbers that were given.  The state machine      *)
(* itself keeps only the last request id of a branch and no gray number    *)
(* of a release that has ended, so what it promises over time is stated    *)
(* here.                                                                   *)
(***************************************************************************)
EXTENDS MCGray

VARIABLES
    carriedOut,  \* request ids that took effect, per branch
    grayGiven    \* gray numbers that had a snapshot, per branch

\* The request id that a step carries out on b: the state machine stores it.
NewRequest(b) ==
    /\ branches[b] # None /\ branches'[b] # None
    /\ branches'[b].last_request_id # branches[b].last_request_id

HistoryInit ==
    /\ Init
    /\ carriedOut = [b \in Branch |-> {}]
    /\ grayGiven = [b \in Branch |-> {}]

HistoryNext ==
    /\ Next
    /\ carriedOut' = [b \in Branch |->
          IF NewRequest(b) THEN carriedOut[b] \cup {branches'[b].last_request_id}
          ELSE carriedOut[b]]
    /\ grayGiven' = [b \in Branch |-> grayGiven[b] \cup DOMAIN graySnaps'[b]]

HistorySpec == HistoryInit /\ [][HistoryNext]_<<vars, carriedOut, grayGiven>>

\* PUB-002: publishing again with the same request id takes effect only once,
\* also when another request came in between.
RequestTakesEffectOnce ==
    [][\A b \in Branch : NewRequest(b) =>
          branches'[b].last_request_id \notin carriedOut[b]]_vars

\* The gray numbers of a branch only grow, from one release to the next too:
\* a number is never given to a second snapshot.
GrayNumbersGrow ==
    [][\A b \in Branch : \A n \in DOMAIN graySnaps'[b] \ DOMAIN graySnaps[b] :
          \A m \in grayGiven[b] : n > m]_vars
=============================================================================
