----------------------------- MODULE PeersProofs -----------------------------
(***************************************************************************)
(* Proofs about Peers: the list follows the registry, and what a stale     *)
(* walk may do to a status, for any number of peers, submits and changes.  *)
(***************************************************************************)
EXTENDS Peers, TLAPS

LEMMA InitialInv == Init => IndInv
<1> SUFFICES ASSUME Init PROVE IndInv
  OBVIOUS
<1>1. validators \in Registry
  <2>1. validators \in [{} -> Addresses] /\ {} \in SUBSET Validators
    BY DEF Init
  <2> QED
    BY <2>1 DEF Registry
<1>2. TypeOK
  BY <1>1, PeersAssumption DEF Init, TypeOK
<1>3. ListIsRegistry
  BY DEF Init, ListIsRegistry
<1>4. WalksInv
  BY DEF Init, WalksInv, HeldBy, Walkers
<1> QED
  BY <1>2, <1>3, <1>4 DEF IndInv

-----------------------------------------------------------------------------
(* Steps that leave the list alone.                                        *)

\* A walk may change as long as it keeps to objects that were made, and the
\* pass to peers that are not ABNORMAL.
LEMMA HeldKept ==
  ASSUME NEW w, NEW v, v # w, walks \in [Walkers -> Walks \union {Nobody}],
         w \in Walkers, v \in Walkers, NEW new, walks' = [walks EXCEPT ![w] = new]
  PROVE  HeldBy(v)' = HeldBy(v)
BY DEF HeldBy

\* To begin a walk through peers of the list.
LEMMA BeginWalk ==
  ASSUME IndInv, NEW w \in Walkers, walks[w] = Nobody, UNCHANGED <<world, list, failures>>,
         NEW op \in {"check", "broadcast"}, NEW todo \in SUBSET items,
         walks' = [walks EXCEPT ![w] = [op |-> op, todo |-> todo, call |-> Nobody]],
         w = Job => (\A o \in todo : heap[o].status # "ABNORMAL") /\ pass' = "walk",
         w # Job => op = "broadcast" /\ UNCHANGED pass
  PROVE  IndInv'
<1> DEFINE new == [op |-> op, todo |-> todo, call |-> Nobody]
<1> USE DEF IndInv, world, list
<1>1. new \in Walks /\ new # Nobody
  BY PeersAssumption DEF Walks, TypeOK
<1>2. TypeOK'
  BY <1>1 DEF TypeOK
<1>3. ListIsRegistry'
  BY DEF ListIsRegistry
<1>4. HeldBy(w)' = todo /\ \A v \in Walkers \ {w} : HeldBy(v)' = HeldBy(v)
  BY <1>1 DEF HeldBy, TypeOK
<1>5. \A v \in Walkers : walks'[v] = IF v = w THEN new ELSE walks[v]
  BY DEF TypeOK
<1>6. WalksInv'
  <2>1. (pass' = "walk") <=> (walks'[Job] # Nobody)
    BY <1>1, <1>5 DEF WalksInv, Walkers
  <2>2. \A s \in Submits : walks'[s] # Nobody => walks'[s].op = "broadcast"
    BY <1>5, PeersAssumption DEF WalksInv, Walkers
  <2>3. \A v \in Walkers : walks'[v] # Nobody /\ walks'[v].call # Nobody =>
          walks'[v].call.peer \notin walks'[v].todo
    BY <1>5 DEF WalksInv
  <2>4. \A v \in Walkers : \A o \in HeldBy(v)' : Made(o)'
    BY <1>4 DEF WalksInv, Made
  <2>5. \A o \in HeldBy(Job)' : heap'[o].status # "ABNORMAL"
    BY <1>4 DEF WalksInv, Walkers
  <2>6. \A o \in items' : Made(o)'
    BY DEF WalksInv, Made
  <2> QED
    BY <2>1, <2>2, <2>3, <2>4, <2>5, <2>6 DEF WalksInv
<1> QED
  BY <1>2, <1>3, <1>6

\* To go on with a walk, which then holds no more than before.
LEMMA GoOn ==
  ASSUME IndInv, NEW w \in Walkers, walks[w] # Nobody, NEW new \in Walks,
         walks' = [walks EXCEPT ![w] = new],
         UNCHANGED <<world, list, pass>>, failures' \in Nat,
         new.op = walks[w].op, HeldBy(w)' \subseteq HeldBy(w),
         new.call # Nobody => new.call.peer \notin new.todo
  PROVE  IndInv'
<1> USE DEF IndInv, world, list
<1>1. new # Nobody
  BY PeersAssumption
<1>2. TypeOK'
  BY DEF TypeOK
<1>3. ListIsRegistry'
  BY DEF ListIsRegistry
<1>4. \A v \in Walkers : HeldBy(v)' \subseteq HeldBy(v)
  BY HeldKept DEF TypeOK
<1>5. \A v \in Walkers : walks'[v] = IF v = w THEN new ELSE walks[v]
  BY DEF TypeOK
<1>6. WalksInv'
  BY <1>1, <1>4, <1>5 DEF WalksInv, Made, Walkers
<1> QED
  BY <1>2, <1>3, <1>6

\* The parts of a walk.
LEMMA WalkParts ==
  ASSUME TypeOK, NEW w \in Walkers, walks[w] # Nobody
  PROVE  /\ walks[w] \in Walks
         /\ walks[w].call # Nobody => walks[w].call \in Calls
         /\ HeldBy(w) \subseteq PeerObjects
BY DEF TypeOK, Walks, HeldBy, Calls

LEMMA CallStep ==
  ASSUME IndInv, NEW w \in Walkers, CallPeer(w)
  PROVE  IndInv'
<1>1. PICK o \in walks[w].todo :
        walks' = [walks EXCEPT
          ![w].todo = @ \ {o},
          ![w].call = IF walks[w].op = "check" /\ heap[o].endpoint = NoEndpoint THEN Nobody
                      ELSE [peer |-> o, url |-> heap[o].endpoint, answer |-> Nobody]]
  BY DEF CallPeer
<1> DEFINE call == IF walks[w].op = "check" /\ heap[o].endpoint = NoEndpoint THEN Nobody
                   ELSE [peer |-> o, url |-> heap[o].endpoint, answer |-> Nobody]
           new == [walks[w] EXCEPT !.todo = @ \ {o}, !.call = call]
<1>2. walks[w] # Nobody /\ walks[w] \in Walks /\ walks[w].call = Nobody
  BY WalkParts DEF CallPeer, IndInv
<1>3. o \in HeldBy(w) /\ o \in PeerObjects
  BY <1>2, WalkParts DEF HeldBy, IndInv
<1>4. heap[o] \in Peer
  BY <1>3 DEF IndInv, TypeOK, WalksInv, Made
<1>5. call \in Calls \union {Nobody} /\ (call # Nobody => call.peer = o)
  BY <1>3, <1>4 DEF Calls, Peer
<1>6. walks' = [walks EXCEPT ![w] = new]
  BY <1>1, <1>2 DEF IndInv, TypeOK, Walks
<1> HIDE DEF call
<1>7. /\ new \in Walks /\ new.op = walks[w].op
      /\ new.todo = walks[w].todo \ {o} /\ new.call = call
  BY <1>2, <1>5 DEF Walks
<1> HIDE DEF new
<1>8. HeldBy(w)' \subseteq HeldBy(w)
  <2>1. walks'[w] = new /\ new # Nobody
    BY <1>6, <1>7, PeersAssumption DEF IndInv, TypeOK
  <2> QED
    BY <1>2, <1>5, <1>7, <2>1 DEF HeldBy
<1> QED
  BY <1>2, <1>5, <1>6, <1>7, <1>8, GoOn DEF CallPeer, IndInv, TypeOK

LEMMA AnswerStep ==
  ASSUME IndInv, NEW w \in Walkers, Answer(w) \/ Failure(w)
  PROVE  IndInv'
<1>1. PICK answer \in Validators \union {"failed"} :
        walks' = [walks EXCEPT ![w].call.answer = answer]
  BY DEF Answer, Failure, Listens, IndInv, TypeOK
<1> DEFINE new == [walks[w] EXCEPT !.call.answer = answer]
<1>2. /\ walks[w] # Nobody /\ walks[w] \in Walks
      /\ walks[w].call # Nobody /\ walks[w].call \in Calls
  BY WalkParts DEF Answer, Failure, Waits, IndInv
<1>3. walks' = [walks EXCEPT ![w] = new]
  BY <1>1, <1>2 DEF IndInv, TypeOK
<1>4. /\ new \in Walks /\ new.op = walks[w].op /\ new.todo = walks[w].todo
      /\ new.call \in Calls /\ new.call.peer = walks[w].call.peer
  BY <1>2 DEF Walks, Calls
<1> HIDE DEF new
<1>5. HeldBy(w)' = HeldBy(w)
  <2>1. walks'[w] = new /\ new # Nobody /\ new.call # Nobody
    BY <1>3, <1>4, PeersAssumption DEF IndInv, TypeOK
  <2> QED
    BY <1>2, <1>4, <2>1 DEF HeldBy
<1>6. walks[w].call.peer \notin walks[w].todo
  BY <1>2 DEF IndInv, WalksInv
<1>7. failures' \in Nat /\ UNCHANGED <<world, list, pass>>
  BY DEF Answer, Failure, IndInv, TypeOK
<1> QED
  BY <1>2, <1>3, <1>4, <1>5, <1>6, <1>7, GoOn

\* The answer changes one status.  A submit leaves an ABNORMAL peer INACTIVE or
\* as it is; the pass settles a call only once.
LEMMA SettleStep ==
  ASSUME IndInv, NEW w \in Walkers, Settle(w)
  PROVE  IndInv'
<1> DEFINE o == walks[w].call.peer
           status == StatusAfter(walks[w].op, heap[o], walks[w].call.answer)
           new == [walks[w] EXCEPT !.call = Nobody]
<1>1. /\ walks[w] # Nobody /\ walks[w] \in Walks
      /\ walks[w].call # Nobody /\ walks[w].call \in Calls
      /\ o \in HeldBy(w) /\ o \in PeerObjects
  BY WalkParts DEF Settle, IndInv, HeldBy, Calls
<1>2. heap[o] \in Peer
  BY <1>1 DEF IndInv, TypeOK, WalksInv, Made
<1>3. status \in PeerStatus
      /\ (status = "ABNORMAL" => heap[o].status = "ABNORMAL" \/ walks[w].op = "check")
  BY <1>1, <1>2 DEF StatusAfter, PeerStatus, Peer, Walks, Settle, Calls
<1>4. heap' = [heap EXCEPT ![o].status = status] /\ walks' = [walks EXCEPT ![w] = new]
  BY <1>1 DEF Settle, IndInv, TypeOK, Walks
<1>5. UNCHANGED <<world, validators, items, pass, failures>>
  BY DEF Settle
<1>6. o \notin walks[w].todo
  BY <1>1 DEF IndInv, WalksInv
<1> HIDE DEF status
<1>7. /\ \A p \in PeerObjects \ {o} : heap'[p] = heap[p]
      /\ heap'[o] \in Peer /\ heap'[o].status = status
      /\ heap'[o].nodeId = heap[o].nodeId /\ heap'[o].endpoint = heap[o].endpoint
  BY <1>1, <1>2, <1>3, <1>4 DEF IndInv, TypeOK, Peer
<1>8. /\ new \in Walks /\ new # Nobody /\ new.op = walks[w].op
      /\ new.todo = walks[w].todo /\ new.call = Nobody
  BY <1>1, PeersAssumption DEF Walks
<1> HIDE DEF new
<1>9. walks' \in [Walkers -> Walks \union {Nobody}]
      /\ \A v \in Walkers : walks'[v] = IF v = w THEN new ELSE walks[v]
  BY <1>4, <1>8 DEF IndInv, TypeOK
<1>10. TypeOK'
  <2>1. heap' \in [PeerObjects -> Peer \union {Nobody}]
    BY <1>2, <1>3, <1>4 DEF IndInv, TypeOK, Peer
  <2> QED
    BY <1>5, <1>9, <2>1 DEF IndInv, TypeOK, world
<1>11. \A p \in PeerObjects : Made(p) <=> Made(p)'
  BY <1>2, <1>7, PeersAssumption DEF Made
<1>12. ListIsRegistry'
  <2>1. \A p \in items : heap'[p].nodeId = heap[p].nodeId /\ heap'[p].endpoint = heap[p].endpoint
    BY <1>7 DEF IndInv, TypeOK
  <2> QED
    BY <1>5, <2>1 DEF IndInv, ListIsRegistry
<1>13. HeldBy(w)' = HeldBy(w) \ {o} /\ \A v \in Walkers \ {w} : HeldBy(v)' = HeldBy(v)
  <2>1. HeldBy(w)' = walks[w].todo
    BY <1>8, <1>9 DEF HeldBy
  <2>2. HeldBy(w) = walks[w].todo \union {o}
    BY <1>1 DEF HeldBy
  <2> QED
    BY <1>6, <1>9, <2>1, <2>2 DEF HeldBy
<1>14. \A v \in Walkers : HeldBy(v) \subseteq PeerObjects
  BY WalkParts DEF HeldBy, IndInv
<1>15. WalksInv'
  <2>1. (pass' = "walk") <=> (walks'[Job] # Nobody)
    BY <1>1, <1>5, <1>8, <1>9 DEF IndInv, WalksInv, Walkers
  <2>2. \A s \in Submits : walks'[s] # Nobody => walks'[s].op = "broadcast"
    BY <1>1, <1>8, <1>9 DEF IndInv, WalksInv, Walkers
  <2>3. \A v \in Walkers : walks'[v] # Nobody /\ walks'[v].call # Nobody =>
          walks'[v].call.peer \notin walks'[v].todo
    BY <1>8, <1>9 DEF IndInv, WalksInv
  <2>4. \A p \in items' : Made(p)'
    BY <1>5, <1>11 DEF IndInv, TypeOK, WalksInv
  <2>5. \A v \in Walkers : \A p \in HeldBy(v)' : Made(p)'
    BY <1>11, <1>13, <1>14 DEF IndInv, WalksInv
  <2>6. ASSUME NEW p \in HeldBy(Job)' PROVE heap'[p].status # "ABNORMAL"
    <3>1. Job \in Walkers
      BY DEF Walkers
    <3>2. p \in HeldBy(Job) /\ p \in PeerObjects /\ heap[p].status # "ABNORMAL"
      BY <1>13, <1>14, <2>6, <3>1 DEF IndInv, WalksInv
    <3>3. CASE p # o
      BY <1>7, <3>2, <3>3
    <3>4. CASE p = o
      <4>1. w # Job
        BY <1>13, <2>6, <3>4
      <4>2. walks[w].op = "broadcast"
        BY <1>1, <4>1 DEF IndInv, WalksInv, Walkers
      <4> QED
        BY <1>3, <1>7, <3>2, <3>4, <4>2
    <3> QED
      BY <3>3, <3>4
  <2> QED
    BY <2>1, <2>2, <2>3, <2>4, <2>5, <2>6 DEF WalksInv
<1> QED
  BY <1>10, <1>12, <1>15 DEF IndInv

LEMMA EndStep ==
  ASSUME IndInv, NEW w \in Walkers, EndWalk(w)
  PROVE  IndInv'
<1> USE DEF IndInv, world, list
<1>1. \A v \in Walkers : walks'[v] = IF v = w THEN Nobody ELSE walks[v]
  BY DEF EndWalk, TypeOK
<1>2. \A v \in Walkers : HeldBy(v)' \subseteq HeldBy(v)
  BY <1>1 DEF HeldBy
<1>3. TypeOK'
  BY DEF EndWalk, TypeOK
<1>4. ListIsRegistry'
  BY DEF EndWalk, ListIsRegistry
<1>5. WalksInv'
  BY <1>1, <1>2 DEF EndWalk, WalksInv, Made, Walkers
<1> QED
  BY <1>3, <1>4, <1>5

-----------------------------------------------------------------------------
(* Steps that change the list.                                             *)

\* The list that makePeers() leaves, whichever objects the new peers become.
LEMMA MakePeersStep ==
  ASSUME IndInv, MakePeers
  PROVE  /\ IndInv'
         /\ \A o \in items \intersect items' : heap'[o].status = heap[o].status
<1> USE DEF IndInv, world
<1>1. PICK object \in [Added -> Free] :
        /\ \A v, w \in Added : object[v] = object[w] => v = w
        /\ items' = Kept \union {object[v] : v \in Added}
        /\ heap' = [o \in PeerObjects |->
                      IF o \in Kept THEN Moved(o)
                      ELSE IF \E v \in Added : object[v] = o
                      THEN LET v == CHOOSE w \in Added : object[w] = o IN newPeer(v, registry[v])
                      ELSE heap[o]]
  BY DEF MakePeers
<1>2. \A v \in DOMAIN registry : v \in Validators /\ registry[v] \in Addresses
  BY DEF TypeOK, Registry
<1>3. \A v \in Added : /\ v \in Validators \ {Me} /\ v \in DOMAIN registry
                       /\ object[v] \in PeerObjects /\ object[v] \notin items
                       /\ object[v] \notin Kept
                       /\ \A w \in Walkers : object[v] \notin HeldBy(w)
  BY <1>1, <1>2 DEF Added, Others, Free, Kept
<1>4. \A o \in Kept : /\ o \in items /\ o \in PeerObjects /\ heap[o] \in Peer
                      /\ heap[o].nodeId \in DOMAIN registry \ {Me}
  BY DEF Kept, Others, TypeOK, WalksInv, Made
<1>5. ASSUME NEW o \in Kept
      PROVE  /\ heap'[o] \in Peer /\ heap'[o].nodeId = heap[o].nodeId
             /\ heap'[o].status = heap[o].status
             /\ heap'[o].endpoint = registry[heap[o].nodeId]
  <2>1. heap'[o] = Moved(o)
    BY <1>1, <1>4
  <2> QED
    BY <1>2, <1>4, <2>1 DEF Moved, Peer
<1>6. ASSUME NEW v \in Added
      PROVE  /\ heap'[object[v]] \in Peer /\ heap'[object[v]].nodeId = v
             /\ heap'[object[v]].endpoint = registry[v]
  <2>1. (CHOOSE w \in Added : object[w] = object[v]) = v
    BY <1>1
  <2>2. heap'[object[v]] = newPeer(v, registry[v])
    BY <1>1, <1>3, <2>1
  <2> QED
    BY <1>2, <1>3, <2>2 DEF newPeer, Peer, PeerStatus
<1>7. ASSUME NEW o \in PeerObjects, o \notin items' PROVE heap'[o] = heap[o]
  BY <1>1, <1>7
<1>8. \A o \in items' : o \in Kept \/ \E v \in Added : o = object[v]
  BY <1>1
<1>9. \A o \in items' : o \in PeerObjects /\ heap'[o] \in Peer
  BY <1>3, <1>4, <1>5, <1>6, <1>8
<1>10. UNCHANGED <<registry, hosts, walks, changes, failures>>
       /\ validators' = registry /\ pass' = "peers.check" /\ pass = "makePeers"
  BY DEF MakePeers
<1>11. TypeOK'
  <2>1. heap' \in [PeerObjects -> Peer \union {Nobody}]
    <3>1. heap' = [o \in PeerObjects |-> heap'[o]]
      BY <1>1
    <3>2. \A o \in PeerObjects : heap'[o] \in Peer \union {Nobody}
      BY <1>7, <1>9 DEF TypeOK
    <3> QED
      BY <3>1, <3>2
  <2>2. items' \subseteq PeerObjects
    BY <1>9
  <2> QED
    BY <1>10, <2>1, <2>2 DEF TypeOK
<1>12. ListIsRegistry'
  <2>1. {heap'[o].nodeId : o \in items'} = DOMAIN registry \ {Me}
    <3>1. \A o \in items' : heap'[o].nodeId \in DOMAIN registry \ {Me}
      BY <1>3, <1>4, <1>5, <1>6, <1>8
    <3>2. ASSUME NEW v \in DOMAIN registry \ {Me}
          PROVE  \E o \in items' : heap'[o].nodeId = v
      <4>1. CASE v \in Added
        <5>1. object[v] \in items' /\ heap'[object[v]].nodeId = v
          BY <1>1, <1>6, <4>1
        <5> QED
          BY <5>1
      <4>2. CASE v \notin Added
        <5>1. PICK o \in items : heap[o].nodeId = v
          BY <4>2 DEF Added, Others
        <5>2. o \in Kept
          BY <5>1 DEF Kept, Others
        <5> QED
          BY <1>1, <1>5, <5>1, <5>2
      <4> QED
        BY <4>1, <4>2
    <3>3. \A v : v \in {heap'[o].nodeId : o \in items'} <=> v \in DOMAIN registry \ {Me}
      BY <3>1, <3>2
    <3> QED
      BY <3>3
  <2>2. ASSUME NEW o \in items', NEW p \in items', heap'[o].nodeId = heap'[p].nodeId
        PROVE  o = p
    <3>1. \A q \in Kept : heap[q].nodeId \notin Added
      BY <1>4 DEF Added
    <3>2. CASE o \in Kept /\ p \in Kept
      BY <1>4, <1>5, <2>2, <3>2 DEF ListIsRegistry
    <3>3. CASE o \notin Kept /\ p \notin Kept
      BY <1>6, <1>8, <2>2, <3>3
    <3>4. CASE o \in Kept /\ p \notin Kept
      BY <1>5, <1>6, <1>8, <2>2, <3>1, <3>4
    <3>5. CASE o \notin Kept /\ p \in Kept
      BY <1>5, <1>6, <1>8, <2>2, <3>1, <3>5
    <3> QED
      BY <3>2, <3>3, <3>4, <3>5
  <2>3. \A o \in items' : heap'[o].endpoint = registry[heap'[o].nodeId]
    BY <1>5, <1>6, <1>8
  <2> QED
    BY <1>10, <2>1, <2>2, <2>3 DEF ListIsRegistry
<1>13. WalksInv'
  <2>1. \A w \in Walkers : HeldBy(w)' = HeldBy(w) /\ HeldBy(w) \subseteq PeerObjects
    BY <1>10, WalkParts DEF HeldBy
  <2>2. ASSUME NEW w \in Walkers, NEW o \in HeldBy(w) PROVE Made(o)'
    <3>1. heap[o] # Nobody /\ o \in PeerObjects
      BY <2>1 DEF WalksInv, Made
    <3>2. CASE o \in items'
      BY <1>9, <3>2, PeersAssumption DEF Made
    <3>3. CASE o \notin items'
      BY <1>7, <3>1, <3>3 DEF Made
    <3> QED
      BY <3>2, <3>3
  <2>3. HeldBy(Job) = {} /\ Job \in Walkers
    BY <1>10 DEF WalksInv, HeldBy, Walkers
  <2>4. \A o \in items' : Made(o)'
    BY <1>9, PeersAssumption DEF Made
  <2> QED
    BY <1>10, <2>1, <2>2, <2>3, <2>4 DEF WalksInv
<1>14. \A o \in items \intersect items' : heap'[o].status = heap[o].status
  BY <1>3, <1>5, <1>8
<1> QED
  BY <1>11, <1>12, <1>13, <1>14

LEMMA EnvironmentStep ==
  ASSUME IndInv, Environment
  PROVE  IndInv'
<1> USE DEF IndInv, list
<1>1. ASSUME Change, registry' \in Registry, UNCHANGED <<hosts, list, pass, walks, failures>>
      PROVE  IndInv'
  BY <1>1 DEF Change, TypeOK, ListIsRegistry, WalksInv, Made, HeldBy
<1>2. ASSUME NEW v \in Validators, NEW endpoint \in Addresses, Register(v, endpoint)
      PROVE  IndInv'
  <2>1. registry' \in [DOMAIN registry \union {v} -> Addresses]
        /\ DOMAIN registry \union {v} \in SUBSET Validators
    BY <1>2 DEF Register, TypeOK, Registry
  <2>2. registry' \in Registry
    BY <2>1 DEF Registry
  <2> QED
    BY <1>1, <1>2, <2>2 DEF Register
<1>3. ASSUME NEW v \in Validators, Unregister(v) PROVE IndInv'
  <2>1. registry' \in [DOMAIN registry \ {v} -> Addresses]
        /\ DOMAIN registry \ {v} \in SUBSET Validators
    BY <1>3 DEF Unregister, TypeOK, Registry
  <2>2. registry' \in Registry
    BY <2>1 DEF Registry
  <2> QED
    BY <1>1, <1>3, <2>2 DEF Unregister
<1>4. ASSUME NEW endpoint \in Endpoints, NEW v \in Validators \union {Nobody}, Host(endpoint, v)
      PROVE  IndInv'
  BY <1>4 DEF Host, Change, TypeOK, ListIsRegistry, WalksInv, Made, HeldBy
<1>5. CASE Restart
  <2>1. validators' \in Registry
    <3>1. validators' \in [{} -> Addresses] /\ {} \in SUBSET Validators
      BY <1>5 DEF Restart
    <3> QED
      BY <3>1 DEF Registry
  <2>2. TypeOK'
    BY <1>5, <2>1 DEF Restart, Change, TypeOK
  <2>3. ListIsRegistry'
    BY <1>5 DEF Restart, ListIsRegistry
  <2>4. WalksInv'
    BY <1>5 DEF Restart, WalksInv, HeldBy, Walkers
  <2> QED
    BY <2>2, <2>3, <2>4
<1> QED
  BY <1>2, <1>3, <1>4, <1>5 DEF Environment

LEMMA NextInv ==
  ASSUME IndInv, [Next]_vars
  PROVE  IndInv'
<1>1. CASE BeginPeriod \/ AbortPass
  <2>1. walks[Job] = Nobody
    BY <1>1 DEF BeginPeriod, AbortPass, IndInv, WalksInv
  <2> QED
    BY <1>1, <2>1 DEF BeginPeriod, AbortPass, world, list, IndInv, TypeOK, ListIsRegistry,
                      WalksInv, Made, HeldBy
<1>2. CASE BeginCheck \/ BeginBroadcast
  <2>1. walks[Job] = Nobody /\ Job \in Walkers
    BY <1>2 DEF BeginCheck, BeginBroadcast, IndInv, WalksInv, Walkers
  <2>2. PICK op \in {"check", "broadcast"}, statuses \in SUBSET PeerStatus :
          "ABNORMAL" \notin statuses /\ walks' = [walks EXCEPT ![Job] = Through(op, statuses)]
    BY <1>2 DEF BeginCheck, BeginBroadcast, check, broadcast, PeerStatus
  <2> DEFINE todo == {o \in items : heap[o].status \in statuses}
  <2>3. /\ walks' = [walks EXCEPT ![Job] = [op |-> op, todo |-> todo, call |-> Nobody]]
        /\ todo \in SUBSET items
        /\ \A o \in todo : heap[o].status # "ABNORMAL"
    BY <2>2 DEF Through
  <2>4. UNCHANGED <<world, list, failures>> /\ pass' = "walk"
    BY <1>2 DEF BeginCheck, BeginBroadcast
  <2> HIDE DEF todo
  <2>5. IndInv'
    BY <2>1, <2>3, <2>4, BeginWalk
  <2> QED
    BY <2>5
<1>3. ASSUME NEW s \in Submits, BeginBroadcastSubmit(s) PROVE IndInv'
  <2>1. s \in Walkers /\ s # Job
    BY PeersAssumption DEF Walkers
  <2> QED
    BY <1>3, <2>1, BeginWalk DEF BeginBroadcastSubmit, broadcast, Through
<1>4. ASSUME NEW w \in Walkers, WalkOn(w) PROVE IndInv'
  BY <1>4, CallStep, AnswerStep, SettleStep, EndStep DEF WalkOn
<1>5. CASE UNCHANGED vars
  BY <1>5 DEF vars, world, list, IndInv, TypeOK, ListIsRegistry, WalksInv, Made, HeldBy
<1> QED
  BY <1>1, <1>2, <1>3, <1>4, <1>5, MakePeersStep, EnvironmentStep DEF Next

-----------------------------------------------------------------------------
(* The theorems.                                                           *)

\* Whatever else runs while a walk awaits a call, its peers are there, and the
\* pass checks and broadcasts to none that is ABNORMAL.
THEOREM WalksAreSound == Spec => []IndInv
BY InitialInv, NextInv, PTL DEF Spec

\* The peers are the validators that the handlers know, at their endpoints.
THEOREM ListFollowsRegistry == Spec => []ListIsRegistry
BY WalksAreSound, PTL DEF IndInv

\* Only the failure of a submit that had picked it before clears the status
\* ABNORMAL, and it does not make the peer ACTIVE.
THEOREM AbnormalStays == Spec => AbnormalIsKept
<1> DEFINE Stays == \A o \in items \intersect items' :
       heap[o].status = "ABNORMAL" /\ heap'[o].status # "ABNORMAL" =>
         /\ heap'[o].status = "INACTIVE"
         /\ \E s \in Submits : o \in HeldBy(s)
<1>1. ASSUME IndInv, [Next]_vars PROVE Stays
  <2>1. SUFFICES ASSUME NEW o \in items \intersect items', heap[o].status = "ABNORMAL",
                        heap'[o].status # "ABNORMAL"
                 PROVE  /\ heap'[o].status = "INACTIVE"
                        /\ \E s \in Submits : o \in HeldBy(s)
    OBVIOUS
  <2>2. heap' # heap /\ items' # {} /\ ~MakePeers
    BY <1>1, <2>1, MakePeersStep
  <2>3. PICK w \in Walkers : Settle(w)
    BY <1>1, <2>2
    DEF Next, BeginPeriod, AbortPass, BeginCheck, BeginBroadcast, BeginBroadcastSubmit, WalkOn,
        CallPeer, Answer, Failure, EndWalk, Environment, Register, Unregister, Host, Restart,
        vars, list
  <2>4. /\ o = walks[w].call.peer /\ o \in PeerObjects /\ o \in HeldBy(w)
        /\ heap'[o].status = StatusAfter(walks[w].op, heap[o], walks[w].call.answer)
    <3>1. heap' = [heap EXCEPT ![walks[w].call.peer].status =
                     StatusAfter(walks[w].op, heap[walks[w].call.peer], walks[w].call.answer)]
          /\ walks[w] # Nobody /\ walks[w].call # Nobody
      BY <2>3 DEF Settle
    <3>2. o \in PeerObjects /\ heap[o] \in Peer
      BY <1>1 DEF IndInv, TypeOK, WalksInv, Made
    <3>3. o = walks[w].call.peer
      BY <1>1, <2>1, <3>1, <3>2 DEF IndInv, TypeOK
    <3>4. heap'[o].status = StatusAfter(walks[w].op, heap[o], walks[w].call.answer)
      BY <1>1, <3>1, <3>2, <3>3 DEF IndInv, TypeOK, Peer
    <3> QED
      BY <3>1, <3>2, <3>3, <3>4 DEF HeldBy
  <2>5. w \in Submits
    <3>1. w # Job
      BY <1>1, <2>1, <2>4 DEF IndInv, WalksInv
    <3> QED
      BY <3>1 DEF Walkers
  <2>6. walks[w].op = "broadcast"
    BY <1>1, <2>3, <2>5 DEF IndInv, WalksInv, Settle
  <2> QED
    BY <2>1, <2>4, <2>5, <2>6 DEF StatusAfter
<1>2. IndInv /\ [Next]_vars => [Stays]_vars
  BY <1>1
<1> QED
  BY <1>2, WalksAreSound, PTL DEF Spec, AbnormalIsKept

=============================================================================
