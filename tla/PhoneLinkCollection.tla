------------------------ MODULE PhoneLinkCollection ------------------------
(***************************************************************************)
(* The PhoneLinkCollection contract as the validators use it.  Its source  *)
(* is a dependency and not part of the repository: each operator is what   *)
(* the calls of validator/Router.ts, and what they do with the answers,    *)
(* rely on.  A call that the contract rejects reverts: it changes nothing. *)
(***************************************************************************)
CONSTANTS
  Validators,   \* every validator that may ever be registered
  Quorums       \* the sets of voters whose agreement links a phone number

ASSUME ContractAssumption == Quorums \subseteq SUBSET Validators

\* INVALID: never added (isAvailable); COUNTED: counted, the link is made.
RequestStatus == {"INVALID", "REQUESTED", "COUNTED"}
Request == [status : RequestStatus, voters : SUBSET Validators]

isAvailable(requests, id) == requests[id].status = "INVALID"

\* Enough validators have voted for the request.
Agreed(requests, id) == \E q \in Quorums : q \subseteq requests[id].voters

addRequest(requests, id) ==
  IF isAvailable(requests, id)
  THEN [requests EXCEPT ![id].status = "REQUESTED"]
  ELSE requests

voteRequest(requests, id, voter) ==
  IF requests[id].status = "REQUESTED"
  THEN [requests EXCEPT ![id].voters = @ \union {voter}]
  ELSE requests

\* 1: counting is possible, 2: it is not (yet), 0: it has been done.
canCountVote(requests, id) ==
  CASE requests[id].status = "COUNTED" -> 0
    [] requests[id].status = "REQUESTED" /\ Agreed(requests, id) -> 1
    [] OTHER -> 2

countVote(requests, id) ==
  IF canCountVote(requests, id) = 1
  THEN [requests EXCEPT ![id].status = "COUNTED"]
  ELSE requests

=============================================================================
