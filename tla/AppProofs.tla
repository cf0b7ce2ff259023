----------------------------- MODULE AppProofs -----------------------------
(***************************************************************************)
(* Proofs about the request receiver of a process and App::shutdown, for   *)
(* every set of addresses, every set of methods and every configuration:   *)
(* a command never outlives the CallData whose address it holds, and the   *)
(* server stays able to take calls of every method.                        *)
(***************************************************************************)
EXTENDS App, FiniteSetTheorems, TLAPS

\* A leaf that names no prover is tried with SMT, with Zenon, and again with SMT and ever more time.
USE SMT, Zenon, SMTT(10), SMTT(20), SMTT(30), SMTT(40), SMTT(60)

States == {"free", "listening", "refused", "arrived", "commanded", "answering", "answered",
           "cutOff", "leaked"}

Call == [at : States, method : Method \cup {NoAddress}]

ReceiverTypeOK ==
  /\ calls \in [Address -> Call]
  /\ \A a \in Address : calls[a].at = "free" => calls[a] = Free
  /\ receiver \in [server : {"none", "up", "shutdown", "drained"}, isShutdown : BOOLEAN,
                   thread : {"none", "running", "ended"}, at : Address \cup {NoAddress}]
  /\ commandQueue \in [items : Seq(Address \cup {NoAddress}), stopped : BOOLEAN]
  /\ inFlight \in SUBSET Address

\* run() has not come to the CallData that it spawns before the receiver's thread starts.
Early == main \in {"construct", "run", "startListen", "preSpawn"}

\* What a command of a client holds.
Queued(a) == \E i \in 1 .. Len(commandQueue.items) : commandQueue.items[i] = a

\* Until then nobody calls, and nobody holds a handle.
NothingBeforeListening ==
  /\ Early => /\ \A a \in Address : calls[a] = Free
              /\ receiver.thread = "none"
              /\ commandQueue.items = <<>>
              /\ inFlight = {}
              /\ \A t \in Thread : threads[t] = "none"
  /\ main = "startReceiving" => receiver.thread = "none"
  /\ main \in {"preSpawn", "startReceiving"} => receiver.server # "none"
  /\ receiver.thread = "none" => receiver.at = NoAddress
  /\ receiver.server = "none" => receiver.thread = "none" /\ \A a \in Address : calls[a] = Free

\* Each handle is in one place, and its CallData waits for the answer.
OneHolder ==
  /\ \A a \in Address : calls[a].at = "commanded" <=> a \in inFlight \/ Queued(a) \/ a = receiver.at
  /\ \A i, j \in 1 .. Len(commandQueue.items) :
       commandQueue.items[i] = commandQueue.items[j] => i = j \/ commandQueue.items[i] = NoAddress
  /\ \A a \in Address : ~(a \in inFlight /\ Queued(a)) /\ ~(a \in inFlight /\ a = receiver.at)
                        /\ ~(Queued(a) /\ a = receiver.at)

\* A server that shuts down has refused everybody, and nobody else is refused.
RefusedByShutdown ==
  /\ receiver.isShutdown <=> receiver.server \in {"shutdown", "drained"}
  /\ \A a \in Address : calls[a].at = "refused" => receiver.isShutdown

\* Tags that spawn a CallData when they are taken find an address for it.
Spawning == {a \in Address : calls[a].at \in {"arrived", "cutOff"}}
RoomToSpawn == Cardinality(FreeAddresses) >= Cardinality(Spawning)

\* Once they are spawned the methods are served, whether the thread runs yet or not.
Served(m) == \E a \in Address : calls[a].method = m /\ calls[a].at \in {"listening", "arrived"}

ServedSinceListening ==
  receiver.server = "up" /\ (main = "startReceiving" \/ receiver.thread # "none") =>
    \A m \in Method : Served(m)

AppInv ==
  /\ ReceiverTypeOK
  /\ NothingBeforeListening
  /\ OneHolder
  /\ RefusedByShutdown
  /\ RoomToSpawn
  /\ ServedSinceListening


-----------------------------------------------------------------------------
(* Counting addresses.                                                     *)

\* A part of the addresses has a number of members, a part of it no more.
LEMMA Counted ==
  ASSUME NEW S \in SUBSET Address, NEW R \in SUBSET S
  PROVE  /\ IsFiniteSet(S) /\ Cardinality(S) \in Nat
         /\ IsFiniteSet(R) /\ Cardinality(R) \in Nat /\ Cardinality(R) <= Cardinality(S)
BY AddressAssumption, FS_Subset, FS_CardinalityType

\* One member less, one more, one for another.
LEMMA CountedOne ==
  ASSUME NEW S \in SUBSET Address, NEW a \in Address
  PROVE  /\ a \in S => Cardinality(S \ {a}) = Cardinality(S) - 1
         /\ a \notin S => Cardinality(S \cup {a}) = Cardinality(S) + 1
         /\ \A b \in S : a \notin S => Cardinality((S \ {b}) \cup {a}) = Cardinality(S)
<1>1. IsFiniteSet(S) /\ Cardinality(S) \in Nat
  BY Counted
<1>2. a \in S => Cardinality(S \ {a}) = Cardinality(S) - 1
  BY Zenon, <1>1, FS_RemoveElement
<1>3. a \notin S => Cardinality(S \cup {a}) = Cardinality(S) + 1
  BY Zenon, <1>1, FS_AddElement
<1>4. ASSUME NEW b \in S, a \notin S PROVE Cardinality((S \ {b}) \cup {a}) = Cardinality(S)
  <2>1. Cardinality(S \ {b}) = Cardinality(S) - 1 /\ IsFiniteSet(S \ {b})
    BY Zenon, <1>1, FS_RemoveElement
  <2>2. a \notin S \ {b}
    BY <1>4
  <2>3. Cardinality((S \ {b}) \cup {a}) = Cardinality(S \ {b}) + 1
    BY Zenon, <2>1, <2>2, FS_AddElement
  <2> QED
    BY <1>1, <2>1, <2>3
<1> QED
  BY <1>2, <1>3, <1>4

\* Nothing new that spawns and nothing less that is free.
LEMMA RoomStays ==
  ASSUME RoomToSpawn, FreeAddresses \subseteq FreeAddresses', Spawning' \subseteq Spawning
  PROVE  RoomToSpawn'
<1>1. /\ FreeAddresses \in SUBSET Address /\ FreeAddresses' \in SUBSET Address
      /\ Spawning \in SUBSET Address /\ Spawning' \in SUBSET Address
  BY DEF FreeAddresses, Spawning
<1>2. /\ Cardinality(FreeAddresses) <= Cardinality(FreeAddresses')
      /\ Cardinality(Spawning') <= Cardinality(Spawning)
      /\ Cardinality(FreeAddresses) \in Nat /\ Cardinality(FreeAddresses') \in Nat
      /\ Cardinality(Spawning) \in Nat /\ Cardinality(Spawning') \in Nat
  BY Zenon, <1>1, Counted
<1> QED
  BY <1>2 DEF RoomToSpawn


-----------------------------------------------------------------------------
(* One call changes.                                                       *)

\* What is where after the call at one address has changed.
LEMMA Replaced ==
  ASSUME ReceiverTypeOK, NEW a \in Address, NEW c \in Call, c.at = "free" => c = Free,
         calls' = [calls EXCEPT ![a] = c]
  PROVE  /\ calls' \in [Address -> Call] /\ calls'[a] = c
         /\ \A b \in Address : b # a => calls'[b] = calls[b]
         /\ \A b \in Address : calls'[b].at = "free" => calls'[b] = Free
<1>1. calls \in [Address -> Call] /\ \A b \in Address : calls[b].at = "free" => calls[b] = Free
  BY DEF ReceiverTypeOK
<1>2. /\ calls' \in [Address -> Call] /\ calls'[a] = c
      /\ \A b \in Address : b # a => calls'[b] = calls[b]
  BY <1>1
<1> QED
  BY Zenon, <1>1, <1>2

\* The step of a CallData to its next state.
Moves(a, at) ==
  /\ calls' = [calls EXCEPT ![a].at = at]
  /\ calls[a].at # "free" /\ at \in States \ {"free"}

\* A move changes the state of one CallData, and frees and takes no address.
LEMMA Moved ==
  ASSUME ReceiverTypeOK, NEW a \in Address, NEW at, Moves(a, at)
  PROVE  /\ calls' \in [Address -> Call]
         /\ calls'[a].at = at /\ calls'[a].method = calls[a].method
         /\ \A b \in Address : b # a => calls'[b] = calls[b]
         /\ \A b \in Address : calls'[b].at = "free" => calls'[b] = Free
         /\ FreeAddresses' = FreeAddresses
<1> DEFINE c == [calls[a] EXCEPT !.at = at]
<1>1. calls[a] \in Call /\ calls \in [Address -> Call]
  BY DEF ReceiverTypeOK
<1>2. c \in Call /\ c.at = at /\ c.method = calls[a].method
  BY <1>1 DEF Call, Moves
<1>3. calls' = [calls EXCEPT ![a] = c] /\ at # "free" /\ calls[a].at # "free"
  BY <1>1 DEF Moves
<1> HIDE DEF c
<1>4. /\ calls' \in [Address -> Call] /\ calls'[a] = c
      /\ \A b \in Address : b # a => calls'[b] = calls[b]
      /\ \A b \in Address : calls'[b].at = "free" => calls'[b] = Free
  BY Zenon, <1>2, <1>3, Replaced
<1>5. calls[a] # Free /\ calls'[a] # Free
  BY <1>2, <1>3, <1>4 DEF Free
<1>6. FreeAddresses' = FreeAddresses
  BY <1>4, <1>5 DEF FreeAddresses
<1> QED
  BY Zenon, <1>2, <1>4, <1>6

\* A move away from the states that spawn, or between others, leaves room.
LEMMA MoveLeavesRoom ==
  ASSUME ReceiverTypeOK, RoomToSpawn, NEW a \in Address, NEW at, Moves(a, at),
         at \notin {"arrived", "cutOff"} \/ HasRoom
  PROVE  RoomToSpawn'
<1>1. /\ calls'[a].at = at /\ \A b \in Address : b # a => calls'[b] = calls[b]
      /\ FreeAddresses' = FreeAddresses
  BY Zenon, Moved
<1>2. CASE at \notin {"arrived", "cutOff"}
  <2>1. Spawning' \subseteq Spawning
    BY <1>1, <1>2 DEF Spawning
  <2> QED
    BY Zenon, <1>1, <2>1, RoomStays
<1>3. CASE HasRoom
  <2>1. Spawning' \subseteq Spawning \cup {a} /\ Spawning \in SUBSET Address
    BY <1>1 DEF Spawning
  <2>2. Cardinality(FreeAddresses) > Cardinality(Spawning)
    BY Zenon, <1>3 DEF HasRoom, Spawning
  <2>3. /\ Cardinality(Spawning) \in Nat /\ Cardinality(Spawning \cup {a}) \in Nat
        /\ Cardinality(Spawning') \in Nat /\ Cardinality(Spawning') <= Cardinality(Spawning \cup {a})
        /\ Cardinality(FreeAddresses) \in Nat
    <3>1. Spawning \cup {a} \in SUBSET Address /\ FreeAddresses \in SUBSET Address
      BY <2>1 DEF FreeAddresses
    <3>2. Spawning' \in SUBSET (Spawning \cup {a}) /\ Spawning \in SUBSET (Spawning \cup {a})
      BY <2>1
    <3> QED
      BY Zenon, <3>1, <3>2, Counted
  <2>4. Cardinality(Spawning \cup {a}) <= Cardinality(Spawning) + 1
    <3>1. CASE a \in Spawning
      <4>1. Spawning \cup {a} = Spawning
        BY <3>1
      <4>2. Cardinality(Spawning \cup {a}) = Cardinality(Spawning)
        BY Zenon, <4>1
      <4> QED
        BY <2>3, <4>2
    <3>2. CASE a \notin Spawning
      <4>1. Cardinality(Spawning \cup {a}) = Cardinality(Spawning) + 1
        BY Zenon, <2>1, <3>2, CountedOne
      <4> QED
        BY <2>3, <4>1
    <3> QED
      BY <3>1, <3>2
  <2>5. Cardinality(FreeAddresses') = Cardinality(FreeAddresses)
    BY Zenon, <1>1
  <2> QED
    BY <2>2, <2>3, <2>4, <2>5 DEF RoomToSpawn
<1> QED
  BY <1>2, <1>3

\* A move that serves if what it leaves does, and neither takes nor gives up a handle,
\* preserves the invariant.
LEMMA QuietMove ==
  ASSUME AppInv, NEW a \in Address, NEW at, Moves(a, at),
         calls[a].at \in {"listening", "arrived"} => at \in {"listening", "arrived"},
         calls[a].at # "commanded", at \notin {"commanded", "refused"},
         at \notin {"arrived", "cutOff"} \/ HasRoom,
         UNCHANGED <<receiver, commandQueue, inFlight, appVars>>
  PROVE  AppInv'
<1>1. /\ ReceiverTypeOK /\ NothingBeforeListening /\ OneHolder /\ RefusedByShutdown /\ RoomToSpawn
      /\ ServedSinceListening
  BY Zenon DEF AppInv
<1>2. UNCHANGED <<receiver, commandQueue, inFlight, main, threads>>
  BY Zenon DEF appVars
<1>3. /\ calls' \in [Address -> Call] /\ calls'[a].at = at /\ calls'[a].method = calls[a].method
      /\ \A b \in Address : b # a => calls'[b] = calls[b]
      /\ \A b \in Address : calls'[b].at = "free" => calls'[b] = Free
  BY Zenon, <1>1, Moved
<1>4. ReceiverTypeOK'
  BY Zenon, <1>1, <1>2, <1>3 DEF ReceiverTypeOK
<1>5. NothingBeforeListening'
  <2>1. ~Early /\ receiver.server # "none"
    BY <1>1 DEF NothingBeforeListening, Moves, Free
  <2> QED
    BY Zenon, <1>1, <1>2, <2>1 DEF NothingBeforeListening, Early
<1>6. OneHolder'
  <2>1. \A b \in Address : calls'[b].at = "commanded" <=> calls[b].at = "commanded"
    BY Zenon, <1>3
  <2> QED
    BY ZenonT(30), <1>1, <1>2, <2>1 DEF OneHolder, Queued
<1>7. RefusedByShutdown'
  <2>1. \A b \in Address : calls'[b].at = "refused" => calls[b].at = "refused"
    BY Zenon, <1>3
  <2> QED
    BY Zenon, <1>1, <1>2, <2>1 DEF RefusedByShutdown
<1>8. RoomToSpawn'
  BY Zenon, <1>1, MoveLeavesRoom
<1>9. ServedSinceListening'
  <2>1. ASSUME NEW m \in Method, Served(m) PROVE Served(m)'
    <3>1. PICK b \in Address : calls[b].method = m /\ calls[b].at \in {"listening", "arrived"}
      BY Zenon, <2>1 DEF Served
    <3>2. calls'[b].method = m /\ calls'[b].at \in {"listening", "arrived"}
      BY Zenon, <1>3, <3>1
    <3> QED
      BY Zenon, <3>2 DEF Served
  <2> QED
    BY Zenon, <1>1, <1>2, <2>1 DEF ServedSinceListening
<1> QED
  BY Zenon, <1>4, <1>5, <1>6, <1>7, <1>8, <1>9 DEF AppInv


-----------------------------------------------------------------------------
(* The actions on calls.                                                   *)

\* A CallData is spawned at a free address, and the one at a goes on to c.
LEMMA Spawn ==
  ASSUME AppInv, NEW a \in Address, calls[a].at \in {"arrived", "cutOff"}, receiver.thread # "none",
         NEW c \in Call, c.at = "free" => c = Free, c.at \notin {"arrived", "cutOff", "refused"},
         calls' = [Spawned(calls, FreeAddress, calls[a].method) EXCEPT ![a] = c]
  PROVE  /\ ReceiverTypeOK /\ ~Early
         /\ calls' \in [Address -> Call]
         /\ \A b \in Address : calls'[b].at = "free" => calls'[b] = Free
         /\ FreeAddress \in Address /\ FreeAddress # a /\ calls[FreeAddress] = Free
         /\ calls'[a] = c /\ calls'[FreeAddress].at \in {"listening", "refused"}
         /\ receiver.server = "up" <=> calls'[FreeAddress].at = "listening"
         /\ \A b \in Address : b \notin {a, FreeAddress} => calls'[b] = calls[b]
         /\ RoomToSpawn'
         /\ receiver.server = "up" => \A m \in Method : Served(m)'
<1> DEFINE f == FreeAddress
<1>1. /\ ReceiverTypeOK /\ NothingBeforeListening /\ OneHolder /\ RefusedByShutdown /\ RoomToSpawn
      /\ ServedSinceListening
  BY Zenon DEF AppInv
<1>2. ~Early
  BY Zenon, <1>1 DEF NothingBeforeListening
<1>3. /\ calls \in [Address -> Call] /\ calls[a] \in Call /\ a \in Spawning
      /\ Spawning \in SUBSET Address /\ FreeAddresses \in SUBSET Address
  BY <1>1 DEF ReceiverTypeOK, Spawning, FreeAddresses
<1>4. f \in FreeAddresses
  <2>1. FreeAddresses # {}
    <3>1. SUFFICES ASSUME FreeAddresses = {} PROVE FALSE
      OBVIOUS
    <3>2. {a} \in SUBSET Spawning /\ Cardinality({a}) = 1 /\ Cardinality({}) = 0
      BY Zenon, <1>3, FS_Singleton, FS_EmptySet
    <3>3. Cardinality({a}) <= Cardinality(Spawning) /\ Cardinality(Spawning) \in Nat
      BY Zenon, <1>3, <3>2, Counted
    <3>4. Cardinality(FreeAddresses) = 0
      BY Zenon, <3>1, <3>2
    <3> QED
      BY <1>1, <3>2, <3>3, <3>4 DEF RoomToSpawn
  <2> QED
    BY Zenon, <2>1 DEF FreeAddress
<1>5. f \in Address /\ calls[f] = Free
  BY <1>4 DEF FreeAddresses
<1>6. f # a
  BY <1>5 DEF Free
<1> DEFINE n == [at |-> IF receiver.server = "up" THEN "listening" ELSE "refused",
                 method |-> calls[a].method]
<1>7. n \in Call /\ n.at \in {"listening", "refused"} /\ (receiver.server = "up" <=> n.at = "listening")
      /\ n.method = calls[a].method
  BY <1>3 DEF Call, States
<1>8. calls' = [[calls EXCEPT ![f] = n] EXCEPT ![a] = c]
  BY Zenon DEF Spawned
<1> HIDE DEF f, n
<1>9. /\ calls' \in [Address -> Call] /\ calls'[a] = c /\ calls'[f] = n
      /\ \A b \in Address : b \notin {a, f} => calls'[b] = calls[b]
  BY Zenon, <1>3, <1>5, <1>6, <1>7, <1>8
<1>10. \A b \in Address : calls'[b].at = "free" => calls'[b] = Free
  <2> SUFFICES ASSUME NEW b \in Address, calls'[b].at = "free" PROVE calls'[b] = Free
    OBVIOUS
  <2>1. b # f
    BY <1>7, <1>9
  <2>2. CASE b = a
    BY Zenon, <1>9, <2>2
  <2>3. CASE b # a
    <3>1. calls'[b] = calls[b]
      BY <1>9, <2>1, <2>3
    <3> QED
      BY Zenon, <1>1, <3>1 DEF ReceiverTypeOK
  <2> QED
    BY <2>2, <2>3
<1>11. RoomToSpawn'
  <2>1. Spawning' \in SUBSET (Spawning \ {a})
    BY <1>7, <1>9 DEF Spawning
  <2>2. FreeAddresses \ {f} \in SUBSET FreeAddresses'
    BY <1>3, <1>5, <1>9 DEF FreeAddresses, Free
  <2>3. /\ Cardinality(Spawning \ {a}) = Cardinality(Spawning) - 1
        /\ Cardinality(FreeAddresses \ {f}) = Cardinality(FreeAddresses) - 1
    BY Zenon, <1>3, <1>4, <1>5, CountedOne
  <2>4. FreeAddresses' \in SUBSET Address /\ Spawning \ {a} \in SUBSET Address
    BY <1>3 DEF FreeAddresses
  <2>5. /\ Cardinality(Spawning') <= Cardinality(Spawning \ {a})
        /\ Cardinality(FreeAddresses \ {f}) <= Cardinality(FreeAddresses')
        /\ Cardinality(Spawning') \in Nat /\ Cardinality(FreeAddresses') \in Nat
    BY Zenon, <2>1, <2>2, <2>4, Counted
  <2>6. Cardinality(Spawning) \in Nat /\ Cardinality(FreeAddresses) \in Nat
    BY Zenon, <1>3, Counted
  <2> QED
    BY <1>1, <2>3, <2>5, <2>6 DEF RoomToSpawn
<1>12. ASSUME receiver.server = "up", NEW m \in Method PROVE Served(m)'
  <2>1. PICK b \in Address : calls[b].method = m /\ calls[b].at \in {"listening", "arrived"}
    BY Zenon, <1>1, <1>12 DEF ServedSinceListening, Served
  <2>2. CASE b = a
    <3>1. calls'[f].method = m /\ calls'[f].at = "listening"
      BY Zenon, <1>7, <1>9, <1>12, <2>1, <2>2
    <3> QED
      BY Zenon, <1>5, <3>1 DEF Served
  <2>3. CASE b # a
    <3>1. b # f
      BY <1>5, <2>1 DEF Free
    <3>2. calls'[b] = calls[b]
      BY <1>9, <2>3, <3>1
    <3> QED
      BY Zenon, <2>1, <3>2 DEF Served
  <2> QED
    BY <2>2, <2>3
<1> QED
  BY Zenon, <1>1, <1>2, <1>5, <1>6, <1>7, <1>9, <1>10, <1>11, <1>12 DEF f


\* Taking the tag of a request, and handing its handle over or answering at once.
LEMMA ProcessKeeps ==
  ASSUME AppInv, NEW a \in Address, NEW valid \in BOOLEAN, AtNext, calls[a].at = "arrived",
         Process(a, valid), UNCHANGED <<commandQueue, inFlight, appVars>>
  PROVE  AppInv'
<1> DEFINE accepted == valid /\ ~commandQueue.stopped
           c == [calls[a] EXCEPT !.at = IF accepted THEN "commanded" ELSE "answering"]
           f == FreeAddress
<1>1. /\ ReceiverTypeOK /\ NothingBeforeListening /\ OneHolder /\ RefusedByShutdown /\ RoomToSpawn
      /\ ServedSinceListening
  BY Zenon DEF AppInv
<1>2. calls \in [Address -> Call] /\ calls[a] \in Call
  BY <1>1 DEF ReceiverTypeOK
<1>3. /\ receiver.thread = "running" /\ receiver.at = NoAddress
      /\ UNCHANGED <<commandQueue, inFlight, main, threads>>
  BY Zenon DEF AtNext, appVars
<1>4. /\ c \in Call /\ c.at = (IF accepted THEN "commanded" ELSE "answering")
      /\ c.at \in {"commanded", "answering"}
  BY <1>2 DEF Call, States
<1>5. f # a
  <2>1. a \in Address /\ calls[a].at # "free"
    OBVIOUS
  <2>2. FreeAddresses # {} => calls[f] = Free
    BY Zenon DEF FreeAddress, FreeAddresses
  <2>3. Cardinality(Spawning) >= 1 /\ Cardinality(FreeAddresses) >= 1
    <3>1. /\ {a} \in SUBSET Spawning /\ Spawning \in SUBSET Address
          /\ FreeAddresses \in SUBSET Address
      BY DEF Spawning, FreeAddresses
    <3>2. Cardinality({a}) = 1
      BY Zenon, FS_Singleton
    <3>3. /\ Cardinality({a}) <= Cardinality(Spawning) /\ Cardinality(Spawning) \in Nat
          /\ Cardinality(FreeAddresses) \in Nat
      BY Zenon, <3>1, Counted
    <3> QED
      BY <1>1, <3>2, <3>3 DEF RoomToSpawn
  <2>4. FreeAddresses # {}
    <3>1. Cardinality({}) = 0
      BY FS_EmptySet
    <3> QED
      BY <2>3, <3>1
  <2> QED
    BY <2>1, <2>2, <2>4 DEF Free
<1>6. calls' = [Spawned(calls, f, calls[a].method) EXCEPT ![a] = c]
  <2>1. Spawned(calls, f, calls[a].method)[a] = calls[a]
    BY <1>2, <1>5 DEF Spawned
  <2> QED
    BY <2>1 DEF Process, FillResultAndReply
<1>7. receiver' = IF accepted THEN [receiver EXCEPT !.at = a] ELSE receiver
  BY DEF Process
<1>8. /\ receiver'.server = receiver.server /\ receiver'.isShutdown = receiver.isShutdown
      /\ receiver'.thread = receiver.thread
      /\ receiver'.at = IF accepted THEN a ELSE NoAddress
      /\ receiver' \in [server : {"none", "up", "shutdown", "drained"}, isShutdown : BOOLEAN,
                        thread : {"none", "running", "ended"}, at : Address \cup {NoAddress}]
  BY <1>1, <1>3, <1>7 DEF ReceiverTypeOK
<1> HIDE DEF accepted, c, f
<1>9. /\ ~Early
      /\ calls' \in [Address -> Call]
      /\ \A b \in Address : calls'[b].at = "free" => calls'[b] = Free
      /\ f \in Address /\ calls[f] = Free
      /\ calls'[a] = c /\ calls'[f].at \in {"listening", "refused"}
      /\ receiver.server = "up" <=> calls'[f].at = "listening"
      /\ \A b \in Address : b \notin {a, f} => calls'[b] = calls[b]
      /\ RoomToSpawn'
      /\ receiver.server = "up" => \A m \in Method : Served(m)'
  <2>1. c.at \notin {"arrived", "cutOff", "refused", "free"} /\ calls[a].at \in {"arrived", "cutOff"}
    BY <1>4
  <2>2. receiver.thread # "none"
    BY <1>3
  <2> QED
    BY Zenon, <1>4, <1>6, <2>1, <2>2, Spawn DEF f
<1>10. ReceiverTypeOK'
  BY Zenon, <1>1, <1>3, <1>8, <1>9 DEF ReceiverTypeOK
<1>11. NothingBeforeListening'
  <2>1. receiver'.thread # "none" /\ main' # "startReceiving" /\ receiver'.server # "none"
    BY <1>1, <1>3, <1>8 DEF NothingBeforeListening
  <2> QED
    BY Zenon, <1>3, <1>9, <2>1 DEF NothingBeforeListening, Early
<1>12. OneHolder'
  <2>1. \A b \in Address : Queued(b)' <=> Queued(b)
    BY Zenon, <1>3 DEF Queued
  <2>2. /\ a \notin inFlight /\ ~Queued(a) /\ f \notin inFlight /\ ~Queued(f)
    BY <1>1, <1>9 DEF OneHolder, Free
  <2>3. ASSUME NEW b \in Address
        PROVE  calls'[b].at = "commanded" <=> b \in inFlight' \/ Queued(b)' \/ b = receiver'.at
    <3>1. CASE b = a
      BY <1>3, <1>4, <1>8, <1>9, <2>1, <2>2, <3>1, AddressAssumption
    <3>2. CASE b = f
      BY <1>3, <1>5, <1>8, <1>9, <2>1, <2>2, <3>2, AddressAssumption
    <3>3. CASE b \notin {a, f}
      <4>1. calls'[b] = calls[b] /\ b # receiver'.at /\ b # receiver.at
        BY <1>3, <1>8, <1>9, <3>3, AddressAssumption
      <4> QED
        BY Zenon, <1>1, <1>3, <2>1, <4>1 DEF OneHolder
    <3> QED
      BY <3>1, <3>2, <3>3
  <2>4. ASSUME NEW b \in Address
        PROVE  ~(b \in inFlight' /\ Queued(b)') /\ ~(b \in inFlight' /\ b = receiver'.at)
               /\ ~(Queued(b)' /\ b = receiver'.at)
    <3>1. b = receiver'.at => b = a
      BY <1>8, AddressAssumption
    <3> QED
      BY Zenon, <1>1, <1>3, <2>1, <2>2, <3>1 DEF OneHolder
  <2>5. \A i, j \in 1 .. Len(commandQueue'.items) :
          commandQueue'.items[i] = commandQueue'.items[j] => i = j \/ commandQueue'.items[i] = NoAddress
    BY Zenon, <1>1, <1>3 DEF OneHolder
  <2> QED
    BY Zenon, <2>3, <2>4, <2>5 DEF OneHolder
<1>13. RefusedByShutdown'
  <2>1. ASSUME NEW b \in Address, calls'[b].at = "refused" PROVE receiver'.isShutdown
    <3>1. CASE b = f
      <4>1. receiver.server # "up" /\ receiver.server # "none"
        <5>1. receiver.server # "up"
          BY <1>9, <2>1, <3>1
        <5>2. receiver.server # "none"
          BY <1>1, <1>3 DEF NothingBeforeListening
        <5> QED
          BY <5>1, <5>2
      <4> QED
        BY <1>1, <1>8, <4>1 DEF RefusedByShutdown, ReceiverTypeOK
    <3>2. CASE b = a
      BY <1>4, <1>9, <2>1, <3>2
    <3>3. CASE b \notin {a, f}
      BY <1>1, <1>8, <1>9, <2>1, <3>3 DEF RefusedByShutdown
    <3> QED
      BY <3>1, <3>2, <3>3
  <2> QED
    BY Zenon, <1>1, <1>8, <2>1 DEF RefusedByShutdown
<1>14. ServedSinceListening'
  BY Zenon, <1>8, <1>9 DEF ServedSinceListening
<1> QED
  BY Zenon, <1>9, <1>10, <1>11, <1>12, <1>13, <1>14 DEF AppInv


\* The tag of a Finish that came to its end: the CallData deletes itself.
LEMMA ProceedFinishedKeeps ==
  ASSUME AppInv, NEW a \in Address, ProceedFinished(a), UNCHANGED appVars
  PROVE  AppInv'
<1>1. /\ ReceiverTypeOK /\ NothingBeforeListening /\ OneHolder /\ RefusedByShutdown /\ RoomToSpawn
      /\ ServedSinceListening
  BY Zenon DEF AppInv
<1>2. /\ calls[a].at = "answered" /\ calls' = [calls EXCEPT ![a] = Free]
      /\ receiver.thread = "running" /\ UNCHANGED <<receiver, commandQueue, inFlight, main, threads>>
  BY Zenon DEF ProceedFinished, Deleted, AtNext, appVars
<1>3. /\ calls' \in [Address -> Call] /\ calls'[a] = Free
      /\ \A b \in Address : b # a => calls'[b] = calls[b]
      /\ \A b \in Address : calls'[b].at = "free" => calls'[b] = Free
  <2>1. Free \in Call
    BY DEF Free, Call, States
  <2> QED
    BY Zenon, <1>1, <1>2, <2>1, Replaced
<1>4. Free.at = "free"
  BY DEF Free
<1>5. ReceiverTypeOK'
  BY Zenon, <1>1, <1>2, <1>3 DEF ReceiverTypeOK
<1>6. NothingBeforeListening'
  <2>1. ~Early /\ receiver.server # "none" /\ receiver.thread # "none"
    BY <1>1, <1>2 DEF NothingBeforeListening
  <2> QED
    BY Zenon, <1>1, <1>2, <2>1 DEF NothingBeforeListening, Early
<1>7. OneHolder'
  <2>1. \A b \in Address : calls'[b].at = "commanded" <=> calls[b].at = "commanded"
    BY <1>2, <1>3, <1>4
  <2> QED
    BY ZenonT(30), <1>1, <1>2, <2>1 DEF OneHolder, Queued
<1>8. RefusedByShutdown'
  <2>1. \A b \in Address : calls'[b].at = "refused" => calls[b].at = "refused"
    BY <1>2, <1>3, <1>4
  <2> QED
    BY Zenon, <1>1, <1>2, <2>1 DEF RefusedByShutdown
<1>9. RoomToSpawn'
  <2>1. FreeAddresses \subseteq FreeAddresses'
    BY <1>3 DEF FreeAddresses
  <2>2. Spawning' \subseteq Spawning
    BY <1>3, <1>4 DEF Spawning
  <2> QED
    BY Zenon, <1>1, <2>1, <2>2, RoomStays
<1>10. ServedSinceListening'
  <2>1. ASSUME NEW m \in Method, Served(m) PROVE Served(m)'
    <3>1. PICK b \in Address : calls[b].method = m /\ calls[b].at \in {"listening", "arrived"}
      BY Zenon, <2>1 DEF Served
    <3>2. calls'[b] = calls[b]
      BY <1>2, <1>3, <3>1
    <3> QED
      BY Zenon, <3>1, <3>2 DEF Served
  <2> QED
    BY Zenon, <1>1, <1>2, <2>1 DEF ServedSinceListening
<1> QED
  BY Zenon, <1>5, <1>6, <1>7, <1>8, <1>9, <1>10 DEF AppInv

\* A tag that is not ok.
LEMMA FailOverKeeps ==
  ASSUME AppInv, NEW a \in Address, FailOver(a), UNCHANGED appVars
  PROVE  AppInv'
<1>1. /\ ReceiverTypeOK /\ NothingBeforeListening /\ OneHolder /\ RefusedByShutdown /\ RoomToSpawn
      /\ ServedSinceListening
  BY Zenon DEF AppInv
<1>2. /\ calls[a].at \in {"refused", "cutOff"} /\ receiver.thread = "running"
      /\ UNCHANGED <<receiver, commandQueue, inFlight, main, threads>>
  BY Zenon DEF FailOver, AtNext, appVars
<1>3. CASE receiver.isShutdown
  <2>1. Moves(a, "leaked")
    BY <1>2, <1>3 DEF FailOver, Moves, States
  <2>2. calls[a].at \notin {"listening", "arrived", "commanded"} /\ calls[a].at # "commanded"
    BY <1>2
  <2> QED
    BY <1>2, <2>1, <2>2, QuietMove
<1>4. CASE ~receiver.isShutdown
  <2> DEFINE f == FreeAddress
  <2>1. calls[a].at = "cutOff"
    BY <1>1, <1>2, <1>4 DEF RefusedByShutdown
  <2>2. calls' = [Spawned(calls, f, calls[a].method) EXCEPT ![a] = Free]
    BY Zenon, <1>4 DEF FailOver, Deleted
  <2>3. Free \in Call /\ Free.at = "free"
    BY DEF Free, Call, States
  <2> HIDE DEF f
  <2>4. /\ ~Early
        /\ calls' \in [Address -> Call]
        /\ \A b \in Address : calls'[b].at = "free" => calls'[b] = Free
        /\ f \in Address /\ calls[f] = Free
        /\ calls'[a] = Free /\ calls'[f].at \in {"listening", "refused"}
        /\ receiver.server = "up" <=> calls'[f].at = "listening"
        /\ \A b \in Address : b \notin {a, f} => calls'[b] = calls[b]
        /\ RoomToSpawn'
        /\ receiver.server = "up" => \A m \in Method : Served(m)'
    <3>1. Free.at \notin {"arrived", "cutOff", "refused"} /\ calls[a].at \in {"arrived", "cutOff"}
      BY <2>1, <2>3
    <3>2. receiver.thread # "none"
      BY <1>2
    <3> QED
      BY Zenon, <2>2, <2>3, <3>1, <3>2, Spawn DEF f
  <2>5. ReceiverTypeOK'
    BY Zenon, <1>1, <1>2, <2>4 DEF ReceiverTypeOK
  <2>6. receiver.server # "none" /\ receiver.thread # "none" /\ main # "startReceiving"
    BY <1>1, <1>2 DEF NothingBeforeListening
  <2>7. NothingBeforeListening'
    BY Zenon, <1>2, <2>4, <2>6 DEF NothingBeforeListening, Early
  <2>8. OneHolder'
    <3>1. \A b \in Address : calls'[b].at = "commanded" <=> calls[b].at = "commanded"
      BY <2>1, <2>3, <2>4
    <3> QED
      BY Zenon, <1>1, <1>2, <3>1 DEF OneHolder, Queued
  <2>9. RefusedByShutdown'
    <3>1. receiver.server = "up"
      BY <1>1, <1>4, <2>6 DEF RefusedByShutdown, ReceiverTypeOK
    <3>2. \A b \in Address : calls'[b].at = "refused" => calls[b].at = "refused"
      BY <2>3, <2>4, <3>1
    <3> QED
      BY Zenon, <1>1, <1>2, <3>2 DEF RefusedByShutdown
  <2>10. ServedSinceListening'
    BY Zenon, <1>2, <2>4 DEF ServedSinceListening
  <2> QED
    BY Zenon, <2>4, <2>5, <2>7, <2>8, <2>9, <2>10 DEF AppInv
<1> QED
  BY <1>3, <1>4


\* A client calls, a Finish ends, or stop drops a tag.
LEMMA TagsKeep ==
  ASSUME AppInv, NEW a \in Address, Arrive(a) \/ Finish(a) \/ Drain(a), UNCHANGED appVars
  PROVE  AppInv'
<1>1. UNCHANGED <<receiver, commandQueue, inFlight>>
  BY Zenon DEF Arrive, Finish, Drain
<1>2. CASE Arrive(a)
  <2>1. Moves(a, "arrived") /\ HasRoom /\ calls[a].at = "listening"
    BY <1>2 DEF Arrive, Moves, States
  <2> QED
    BY <1>1, <2>1, QuietMove
<1>3. CASE Finish(a)
  <2>1. PICK at \in {"answered"} \cup {x \in {"cutOff"} : HasRoom} : calls' = [calls EXCEPT ![a].at = at]
    BY Zenon, <1>3 DEF Finish
  <2>2. calls[a].at = "answering"
    BY Zenon, <1>3 DEF Finish
  <2>3. Moves(a, at) /\ (at \notin {"arrived", "cutOff"} \/ HasRoom) /\ at \notin {"commanded", "refused"}
    BY <2>1, <2>2 DEF Moves, States
  <2> QED
    BY <1>1, <2>2, <2>3, QuietMove
<1>4. CASE Drain(a)
  <2>1. Moves(a, "leaked") /\ calls[a].at \in {"refused", "answered", "cutOff"}
    BY <1>4 DEF Drain, Moves, States
  <2> QED
    BY <1>1, <2>1, QuietMove
<1> QED
  BY <1>2, <1>3, <1>4

\* A command is answered through its handle.
LEMMA ReplyKeeps ==
  ASSUME AppInv, NEW a \in Address, Reply(a)
  PROVE  AppInv'
<1>1. /\ ReceiverTypeOK /\ NothingBeforeListening /\ OneHolder /\ RefusedByShutdown /\ RoomToSpawn
      /\ ServedSinceListening
  BY Zenon DEF AppInv
<1>2. /\ a \in inFlight /\ inFlight' = inFlight \ {a} /\ calls' = [calls EXCEPT ![a].at = "answering"]
      /\ UNCHANGED <<receiver, commandQueue, main, threads>>
  BY Zenon DEF Reply, FillResultAndReply, appVars
<1>3. calls[a].at = "commanded" /\ ~Queued(a) /\ a # receiver.at
  BY Zenon, <1>1, <1>2 DEF OneHolder
<1>4. Moves(a, "answering")
  BY <1>2, <1>3 DEF Moves, States
<1>5. /\ calls' \in [Address -> Call] /\ calls'[a].at = "answering"
      /\ \A b \in Address : b # a => calls'[b] = calls[b]
      /\ \A b \in Address : calls'[b].at = "free" => calls'[b] = Free
  BY Zenon, <1>1, <1>4, Moved
<1>6. inFlight' \in SUBSET Address /\ ReceiverTypeOK'
  <2>1. inFlight' \in SUBSET Address
    BY <1>1, <1>2 DEF ReceiverTypeOK
  <2> QED
    BY Zenon, <1>1, <1>2, <1>5, <2>1 DEF ReceiverTypeOK
<1>7. NothingBeforeListening'
  <2>1. ~Early /\ receiver.server # "none"
    BY <1>1, <1>3 DEF NothingBeforeListening, Free
  <2> QED
    BY Zenon, <1>1, <1>2, <2>1 DEF NothingBeforeListening, Early
<1>8. OneHolder'
  <2>1. \A b \in Address : Queued(b)' <=> Queued(b)
    BY Zenon, <1>2 DEF Queued
  <2>2. \A b \in Address : b \in inFlight' <=> b \in inFlight /\ b # a
    BY <1>2
  <2>3. \A b \in Address : calls'[b].at = "commanded" <=> calls[b].at = "commanded" /\ b # a
    BY <1>5
  <2>4. \A b \in Address : calls'[b].at = "commanded" <=> b \in inFlight' \/ Queued(b)' \/ b = receiver'.at
    BY Zenon, <1>1, <1>2, <1>3, <2>1, <2>2, <2>3 DEF OneHolder
  <2>5. \A i, j \in 1 .. Len(commandQueue'.items) :
          commandQueue'.items[i] = commandQueue'.items[j] => i = j \/ commandQueue'.items[i] = NoAddress
    BY Zenon, <1>1, <1>2 DEF OneHolder
  <2>6. \A b \in Address : ~(b \in inFlight' /\ Queued(b)') /\ ~(b \in inFlight' /\ b = receiver'.at)
                           /\ ~(Queued(b)' /\ b = receiver'.at)
    BY Zenon, <1>1, <1>2, <2>1, <2>2 DEF OneHolder
  <2> QED
    BY Zenon, <2>4, <2>5, <2>6 DEF OneHolder
<1>9. RefusedByShutdown'
  <2>1. \A b \in Address : calls'[b].at = "refused" => calls[b].at = "refused"
    BY <1>5
  <2> QED
    BY Zenon, <1>1, <1>2, <2>1 DEF RefusedByShutdown
<1>10. RoomToSpawn'
  <2>1. "answering" \notin {"arrived", "cutOff"}
    OBVIOUS
  <2> QED
    BY Zenon, <1>1, <1>4, <2>1, MoveLeavesRoom
<1>11. ServedSinceListening'
  <2>1. ASSUME NEW m \in Method, Served(m) PROVE Served(m)'
    <3>1. PICK b \in Address : calls[b].method = m /\ calls[b].at \in {"listening", "arrived"}
      BY Zenon, <2>1 DEF Served
    <3>2. calls'[b] = calls[b]
      BY <1>3, <1>5, <3>1
    <3> QED
      BY Zenon, <3>1, <3>2 DEF Served
  <2> QED
    BY Zenon, <1>1, <1>2, <2>1 DEF ServedSinceListening
<1> QED
  BY Zenon, <1>6, <1>7, <1>8, <1>9, <1>10, <1>11 DEF AppInv

\* Server::Shutdown refuses whoever listens.
LEMMA BeginStopKeeps ==
  ASSUME AppInv, BeginStop, UNCHANGED <<main, threads>>
  PROVE  AppInv'
<1>1. /\ ReceiverTypeOK /\ NothingBeforeListening /\ OneHolder /\ RefusedByShutdown /\ RoomToSpawn
      /\ ServedSinceListening
  BY Zenon DEF AppInv
<1>2. /\ UNCHANGED <<commandQueue, inFlight>> /\ calls \in [Address -> Call]
      /\ receiver' = [receiver EXCEPT !.isShutdown = TRUE, !.server = "shutdown"]
      /\ receiver.server = "up"
      /\ calls' = [a \in Address |-> IF calls[a].at = "listening"
                                     THEN [calls[a] EXCEPT !.at = "refused"] ELSE calls[a]]
  BY Zenon, <1>1 DEF BeginStop, ReceiverTypeOK
<1>3. /\ receiver'.server = "shutdown" /\ receiver'.isShutdown = TRUE
      /\ receiver'.thread = receiver.thread /\ receiver'.at = receiver.at
      /\ receiver' \in [server : {"none", "up", "shutdown", "drained"}, isShutdown : BOOLEAN,
                        thread : {"none", "running", "ended"}, at : Address \cup {NoAddress}]
  BY Zenon, <1>1, <1>2 DEF ReceiverTypeOK
<1>4. ASSUME NEW a \in Address
      PROVE  /\ calls'[a] \in Call
             /\ calls[a].at # "listening" => calls'[a] = calls[a]
             /\ calls[a].at = "listening" => calls'[a].at = "refused"
  <2>1. calls[a] \in Call
    BY <1>2
  <2>2. CASE calls[a].at = "listening"
    BY <1>2, <2>1, <2>2 DEF Call, States
  <2>3. CASE calls[a].at # "listening"
    BY <1>2, <2>1, <2>3
  <2> QED
    BY <2>2, <2>3
<1>5. calls' \in [Address -> Call]
  BY <1>2, <1>4
<1>6. \A a \in Address : calls'[a].at = "free" => calls'[a] = Free
  BY <1>1, <1>4 DEF ReceiverTypeOK
<1>7. ReceiverTypeOK'
  BY Zenon, <1>1, <1>2, <1>3, <1>5, <1>6 DEF ReceiverTypeOK
<1>8. NothingBeforeListening'
  <2>1. Early => \A a \in Address : calls'[a] = Free
    BY <1>1, <1>4 DEF NothingBeforeListening, Free
  <2>2. receiver'.server # "none"
    BY <1>3
  <2> QED
    BY Zenon, <1>1, <1>2, <1>3, <2>1, <2>2 DEF NothingBeforeListening, Early
<1>9. OneHolder'
  <2>1. \A b \in Address : calls'[b].at = "commanded" <=> calls[b].at = "commanded"
    BY <1>4
  <2>2. \A b \in Address : Queued(b)' <=> Queued(b)
    BY Zenon, <1>2 DEF Queued
  <2>3. \A b \in Address : calls'[b].at = "commanded" <=> b \in inFlight' \/ Queued(b)' \/ b = receiver'.at
    BY Zenon, <1>1, <1>2, <1>3, <2>1, <2>2 DEF OneHolder
  <2>4. \A i, j \in 1 .. Len(commandQueue'.items) :
          commandQueue'.items[i] = commandQueue'.items[j] => i = j \/ commandQueue'.items[i] = NoAddress
    BY Zenon, <1>1, <1>2 DEF OneHolder
  <2>5. \A b \in Address : ~(b \in inFlight' /\ Queued(b)') /\ ~(b \in inFlight' /\ b = receiver'.at)
                           /\ ~(Queued(b)' /\ b = receiver'.at)
    BY Zenon, <1>1, <1>2, <1>3, <2>2 DEF OneHolder
  <2> QED
    BY Zenon, <2>3, <2>4, <2>5 DEF OneHolder
<1>10. RefusedByShutdown'
  BY <1>3 DEF RefusedByShutdown
<1>11. RoomToSpawn'
  <2>1. FreeAddresses \subseteq FreeAddresses'
    BY <1>4 DEF FreeAddresses, Free
  <2>2. Spawning' \subseteq Spawning
    BY <1>4 DEF Spawning
  <2> QED
    BY Zenon, <1>1, <2>1, <2>2, RoomStays
<1>12. ServedSinceListening'
  BY <1>3 DEF ServedSinceListening
<1> QED
  BY Zenon, <1>7, <1>8, <1>9, <1>10, <1>11, <1>12 DEF AppInv


\* Nothing that the invariant speaks of changes, except where run() is and the threads that
\* it has started.
LEMMA UntouchedKeeps ==
  ASSUME AppInv, UNCHANGED receiverVars,
         Early' => Early /\ UNCHANGED threads,
         main' = "startReceiving" => main = "startReceiving",
         main' = "preSpawn" => main = "preSpawn"
  PROVE  AppInv'
<1>1. /\ ReceiverTypeOK /\ NothingBeforeListening /\ OneHolder /\ RefusedByShutdown /\ RoomToSpawn
      /\ ServedSinceListening
  BY Zenon DEF AppInv
<1>2. calls' = calls /\ receiver' = receiver /\ commandQueue' = commandQueue /\ inFlight' = inFlight
  BY Zenon DEF receiverVars
<1>3. ReceiverTypeOK' /\ OneHolder' /\ RefusedByShutdown'
  BY ZenonT(30), <1>1, <1>2 DEF ReceiverTypeOK, OneHolder, RefusedByShutdown, Queued
<1>4. RoomToSpawn'
  <2>1. FreeAddresses' = FreeAddresses /\ Spawning' = Spawning
    BY Zenon, <1>2 DEF FreeAddresses, Spawning
  <2> QED
    BY Zenon, <1>1, <2>1 DEF RoomToSpawn
<1>5. NothingBeforeListening'
  <2>1. Early' => /\ \A a \in Address : calls'[a] = Free
                  /\ receiver'.thread = "none"
                  /\ commandQueue'.items = <<>>
                  /\ inFlight' = {}
                  /\ \A t \in Thread : threads'[t] = "none"
    BY Zenon, <1>1, <1>2 DEF NothingBeforeListening
  <2>2. main' = "startReceiving" => receiver'.thread = "none"
    BY Zenon, <1>1, <1>2 DEF NothingBeforeListening
  <2>3. main' \in {"preSpawn", "startReceiving"} => receiver'.server # "none"
    BY Zenon, <1>1, <1>2 DEF NothingBeforeListening
  <2> QED
    BY Zenon, <1>1, <1>2, <2>1, <2>2, <2>3 DEF NothingBeforeListening
<1>6. ServedSinceListening'
  <2>1. \A m \in Method : Served(m)' <=> Served(m)
    BY Zenon, <1>2 DEF Served
  <2> QED
    BY Zenon, <1>1, <1>2, <2>1 DEF ServedSinceListening
<1> QED
  BY Zenon, <1>3, <1>4, <1>5, <1>6 DEF AppInv

\* What is left to show of a step that leaves the table as it is.
LEMMA SameCalls ==
  ASSUME AppInv, UNCHANGED calls, receiver'.isShutdown = receiver.isShutdown,
         ReceiverTypeOK', NothingBeforeListening', OneHolder',
         receiver'.isShutdown <=> receiver'.server \in {"shutdown", "drained"},
         receiver'.server = "up" /\ (main' = "startReceiving" \/ receiver'.thread # "none") =>
           receiver.server = "up" /\ (main = "startReceiving" \/ receiver.thread # "none")
  PROVE  AppInv'
<1>1. RefusedByShutdown /\ RoomToSpawn /\ ServedSinceListening
  BY Zenon DEF AppInv
<1>2. RefusedByShutdown'
  BY Zenon, <1>1 DEF RefusedByShutdown
<1>3. RoomToSpawn'
  <2>1. FreeAddresses' = FreeAddresses /\ Spawning' = Spawning
    BY Zenon DEF FreeAddresses, Spawning
  <2> QED
    BY Zenon, <1>1, <2>1 DEF RoomToSpawn
<1>4. ServedSinceListening'
  <2>1. \A m \in Method : Served(m)' <=> Served(m)
    BY Zenon DEF Served
  <2> QED
    BY Zenon, <1>1, <2>1 DEF ServedSinceListening
<1> QED
  BY Zenon, <1>2, <1>3, <1>4 DEF AppInv

\* The server and the thread come and go.
LEMMA ReceiverMoves ==
  ASSUME AppInv,
         \/ MainMoves("startListen", "preSpawn") /\ BuildAndStart /\ UNCHANGED threads
         \/ MainMoves("startReceiving", "startNetAdmin") /\ StartReceiver /\ UNCHANGED threads
         \/ ShutdownCompletionQueue /\ UNCHANGED <<main, threads>>
         \/ EndReceiver /\ UNCHANGED <<main, threads>>
  PROVE  AppInv'
<1>1. ReceiverTypeOK /\ NothingBeforeListening /\ OneHolder /\ RefusedByShutdown
  BY Zenon DEF AppInv
<1>2. UNCHANGED <<calls, commandQueue, inFlight, threads>>
  BY Zenon DEF BuildAndStart, StartReceiver, ShutdownCompletionQueue, EndReceiver
<1>3. receiver \in [server : {"none", "up", "shutdown", "drained"}, isShutdown : BOOLEAN,
                    thread : {"none", "running", "ended"}, at : Address \cup {NoAddress}]
  BY Zenon, <1>1 DEF ReceiverTypeOK
<1>4. ASSUME receiver' \in [server : {"none", "up", "shutdown", "drained"}, isShutdown : BOOLEAN,
                            thread : {"none", "running", "ended"}, at : Address \cup {NoAddress}],
             receiver'.at = receiver.at
      PROVE  ReceiverTypeOK' /\ OneHolder'
  <2>1. ReceiverTypeOK'
    BY Zenon, <1>1, <1>2, <1>4 DEF ReceiverTypeOK
  <2>2. OneHolder'
    BY Zenon, <1>1, <1>2, <1>4 DEF OneHolder, Queued
  <2> QED
    BY <2>1, <2>2
<1>5. CASE MainMoves("startListen", "preSpawn") /\ BuildAndStart
  <2>1. /\ receiver' \in [server : {"none", "up", "shutdown", "drained"}, isShutdown : BOOLEAN,
                          thread : {"none", "running", "ended"}, at : Address \cup {NoAddress}]
        /\ receiver'.at = receiver.at /\ receiver'.server = "up" /\ receiver.server = "none"
        /\ receiver'.isShutdown = receiver.isShutdown /\ receiver'.thread = receiver.thread
        /\ receiver.isShutdown = FALSE
    BY <1>3, <1>5 DEF BuildAndStart
  <2>2. main = "startListen" /\ main' = "preSpawn" /\ Early /\ main' # "startReceiving"
    BY <1>5 DEF MainMoves, Early
  <2>3. receiver.thread = "none"
    BY Zenon, <1>1, <2>2 DEF NothingBeforeListening
  <2>4. NothingBeforeListening'
    <3>1. receiver'.server # "none"
      BY <2>1
    <3> QED
      BY Zenon, <1>1, <1>2, <2>1, <2>2, <3>1 DEF NothingBeforeListening
  <2> QED
    BY <1>2, <1>4, <2>1, <2>2, <2>3, <2>4, SameCalls
<1>6. CASE MainMoves("startReceiving", "startNetAdmin") /\ StartReceiver
  <2>1. /\ receiver' \in [server : {"none", "up", "shutdown", "drained"}, isShutdown : BOOLEAN,
                          thread : {"none", "running", "ended"}, at : Address \cup {NoAddress}]
        /\ receiver'.at = receiver.at /\ receiver'.server = receiver.server
        /\ receiver'.isShutdown = receiver.isShutdown /\ receiver'.thread = "running"
    BY <1>3, <1>6 DEF StartReceiver
  <2>2. main = "startReceiving" /\ ~Early' /\ main' \notin {"preSpawn", "startReceiving"}
    BY <1>6 DEF MainMoves, Early
  <2>3. receiver'.thread # "none" /\ receiver.server # "none"
    BY <1>1, <2>1, <2>2 DEF NothingBeforeListening
  <2>4. NothingBeforeListening'
    BY Zenon, <2>1, <2>2, <2>3 DEF NothingBeforeListening
  <2>5. receiver'.isShutdown <=> receiver'.server \in {"shutdown", "drained"}
    BY Zenon, <1>1, <2>1 DEF RefusedByShutdown
  <2> QED
    BY <1>2, <1>4, <2>1, <2>2, <2>3, <2>4, <2>5, SameCalls
<1>7. CASE ShutdownCompletionQueue /\ UNCHANGED main
  <2>1. /\ receiver' \in [server : {"none", "up", "shutdown", "drained"}, isShutdown : BOOLEAN,
                          thread : {"none", "running", "ended"}, at : Address \cup {NoAddress}]
        /\ receiver'.at = receiver.at /\ receiver'.server = "drained" /\ receiver.server = "shutdown"
        /\ receiver'.isShutdown = receiver.isShutdown /\ receiver'.thread = receiver.thread
    BY <1>3, <1>7 DEF ShutdownCompletionQueue
  <2>2. Early' = Early /\ main' = main
    BY Zenon, <1>7 DEF Early
  <2>3. receiver'.server # "none" /\ receiver'.server # "up"
    BY <2>1
  <2>4. NothingBeforeListening'
    BY Zenon, <1>1, <1>2, <2>1, <2>2, <2>3 DEF NothingBeforeListening
  <2>5. receiver'.isShutdown <=> receiver'.server \in {"shutdown", "drained"}
    BY <1>1, <2>1 DEF RefusedByShutdown
  <2> QED
    BY <1>2, <1>4, <2>1, <2>3, <2>4, <2>5, SameCalls
<1>8. CASE EndReceiver /\ UNCHANGED main
  <2>1. /\ receiver' \in [server : {"none", "up", "shutdown", "drained"}, isShutdown : BOOLEAN,
                          thread : {"none", "running", "ended"}, at : Address \cup {NoAddress}]
        /\ receiver'.at = receiver.at /\ receiver'.server = receiver.server
        /\ receiver.server = "drained" /\ receiver.thread = "running"
        /\ receiver'.isShutdown = receiver.isShutdown /\ receiver'.thread = "ended"
    BY <1>3, <1>8 DEF EndReceiver, AtNext
  <2>2. ~Early /\ main # "startReceiving"
    BY <1>1, <2>1 DEF NothingBeforeListening
  <2>3. ~Early' /\ main' # "startReceiving" /\ main' # "preSpawn"
    BY <1>8, <2>2 DEF Early
  <2>4. receiver'.server # "none" /\ receiver'.server # "up" /\ receiver'.thread # "none"
    BY <2>1
  <2>5. NothingBeforeListening'
    BY Zenon, <2>3, <2>4 DEF NothingBeforeListening
  <2>6. receiver'.isShutdown <=> receiver'.server \in {"shutdown", "drained"}
    BY Zenon, <1>1, <2>1 DEF RefusedByShutdown
  <2> QED
    BY <1>2, <1>4, <2>1, <2>4, <2>5, <2>6, SameCalls
<1> QED
  BY <1>5, <1>6, <1>7, <1>8


\* startListen spawns one CallData for each method.
LEMMA PreSpawnKeeps ==
  ASSUME AppInv, MainMoves("preSpawn", "startReceiving"), PreSpawn, UNCHANGED threads
  PROVE  AppInv'
<1>1. ReceiverTypeOK /\ NothingBeforeListening /\ OneHolder /\ RefusedByShutdown
  BY Zenon DEF AppInv
<1>2. /\ Early /\ ~Early' /\ main' = "startReceiving" /\ receiver.server \in {"up", "shutdown"}
      /\ UNCHANGED <<receiver, commandQueue, inFlight>>
  BY DEF MainMoves, Early, PreSpawn
<1>3. /\ \A a \in Address : calls[a] = Free
      /\ receiver.thread = "none" /\ receiver.at = NoAddress
      /\ commandQueue.items = <<>> /\ inFlight = {}
  BY Zenon, <1>1, <1>2 DEF NothingBeforeListening
<1> DEFINE place == CHOOSE f \in [Method -> Address] : IsInjective(f)
           at == IF receiver.server = "up" THEN "listening" ELSE "refused"
<1>4. place \in [Method -> Address] /\ IsInjective(place)
  BY Zenon, AddressAssumption
<1>5. calls \in [Address -> Call]
  BY Zenon, <1>1 DEF ReceiverTypeOK
<1>6. calls' = [a \in Address |-> IF a \in Range(place)
                                  THEN Spawned(calls, a, CHOOSE m \in Method : place[m] = a)[a]
                                  ELSE Free]
  BY Zenon DEF PreSpawn
<1> HIDE DEF place
<1>7. ASSUME NEW m \in Method
      PROVE  /\ place[m] \in Address /\ place[m] \in Range(place)
             /\ (CHOOSE n \in Method : place[n] = place[m]) = m
  <2>1. \A n \in Method : place[n] = place[m] => n = m
    BY Zenon, <1>4 DEF IsInjective
  <2>2. (CHOOSE n \in Method : place[n] = place[m]) = m
    BY Zenon, <2>1
  <2>3. place[m] \in Range(place)
    BY Zenon, <1>4 DEF Range
  <2> QED
    BY Zenon, <1>4, <2>2, <2>3
<1>8. \A a \in Range(place) : \E m \in Method : a = place[m]
  BY Zenon, <1>4 DEF Range
<1>9. at \in {"listening", "refused"} /\ (at = "refused" => receiver.server = "shutdown")
      /\ (receiver.server = "up" => at = "listening")
  BY <1>2
<1> HIDE DEF at
<1>10. \A m \in Method : calls'[place[m]] = [at |-> at, method |-> m]
  <2> TAKE m \in Method
  <2>1. calls'[place[m]] = Spawned(calls, place[m], m)[place[m]]
    BY Zenon, <1>6, <1>7
  <2> QED
    BY <1>5, <1>7, <2>1 DEF Spawned, at
<1>11. \A a \in Address : a \notin Range(place) => calls'[a] = Free
  BY Zenon, <1>6
<1>12. ASSUME NEW a \in Address
       PROVE  /\ calls'[a] \in Call /\ calls'[a].at \in {"free", at}
              /\ calls'[a].at = "free" => calls'[a] = Free
  <2>1. CASE a \in Range(place)
    <3>1. PICK m \in Method : a = place[m]
      BY Zenon, <1>8, <2>1
    <3>2. calls'[a] = [at |-> at, method |-> m]
      BY Zenon, <1>10, <3>1
    <3> QED
      BY <1>9, <3>2 DEF Call, States
  <2>2. CASE a \notin Range(place)
    BY <1>11, <2>2 DEF Call, States, Free
  <2> QED
    BY <2>1, <2>2
<1>13. calls' \in [Address -> Call]
  <2>1. calls' = [a \in Address |-> calls'[a]]
    BY <1>6
  <2> QED
    BY <1>12, <2>1
<1>14. ReceiverTypeOK'
  BY Zenon, <1>1, <1>2, <1>12, <1>13 DEF ReceiverTypeOK
<1>15. NothingBeforeListening'
  <2>1. receiver'.server # "none"
    BY <1>2
  <2> QED
    BY Zenon, <1>2, <1>3, <2>1 DEF NothingBeforeListening
<1>16. OneHolder'
  <2>1. \A a \in Address : calls'[a].at # "commanded"
    BY <1>9, <1>12
  <2>2. \A i \in 1 .. Len(commandQueue'.items) : FALSE
    BY <1>2, <1>3
  <2>3. \A a \in Address : a \notin inFlight' /\ a # receiver'.at /\ ~Queued(a)'
    <3> TAKE a \in Address
    <3>1. a \notin inFlight'
      BY <1>2, <1>3
    <3>2. a # receiver'.at
      BY Zenon, <1>2, <1>3, AddressAssumption
    <3>3. ~Queued(a)'
      BY Zenon, <2>2 DEF Queued
    <3> QED
      BY <3>1, <3>2, <3>3
  <2> QED
    BY Zenon, <2>1, <2>2, <2>3 DEF OneHolder
<1>17. RefusedByShutdown'
  <2>1. \A a \in Address : calls'[a].at = "refused" => receiver.server \in {"shutdown", "drained"}
    BY <1>9, <1>12
  <2> QED
    BY Zenon, <1>1, <1>2, <2>1 DEF RefusedByShutdown
<1>18. RoomToSpawn'
  <2>1. Spawning' = {}
    BY <1>9, <1>12 DEF Spawning
  <2>2. FreeAddresses' \in SUBSET Address
    BY DEF FreeAddresses
  <2>3. Cardinality(Spawning') = 0 /\ Cardinality(FreeAddresses') \in Nat
    BY Zenon, <2>1, <2>2, Counted, FS_EmptySet
  <2> QED
    BY <2>3 DEF RoomToSpawn
<1>19. ServedSinceListening'
  <2>1. ASSUME NEW m \in Method, receiver'.server = "up" PROVE Served(m)'
    <3>1. calls'[place[m]] = [at |-> "listening", method |-> m] /\ place[m] \in Address
      BY Zenon, <1>2, <1>7, <1>9, <1>10, <2>1
    <3>2. calls'[place[m]].method = m /\ calls'[place[m]].at \in {"listening", "arrived"}
      BY <3>1
    <3> QED
      BY Zenon, <3>1, <3>2 DEF Served
  <2> QED
    BY Zenon, <2>1 DEF ServedSinceListening
<1> QED
  BY Zenon, <1>14, <1>15, <1>16, <1>17, <1>18, <1>19 DEF AppInv

\* The second half of enqueue, of the receiver's thread or of the benchmark.
LEMMA EnqueueKeeps ==
  ASSUME AppInv, UNCHANGED <<calls, inFlight, main>>,
         \/ Enqueue /\ UNCHANGED threads
         \/ BenchmarkEnqueues
  PROVE  AppInv'
<1>1. ReceiverTypeOK /\ NothingBeforeListening /\ OneHolder /\ RefusedByShutdown
  BY Zenon DEF AppInv
<1>2. /\ receiver \in [server : {"none", "up", "shutdown", "drained"}, isShutdown : BOOLEAN,
                       thread : {"none", "running", "ended"}, at : Address \cup {NoAddress}]
      /\ commandQueue \in [items : Seq(Address \cup {NoAddress}), stopped : BOOLEAN]
  BY Zenon, <1>1 DEF ReceiverTypeOK
<1>3. PICK x \in Address \cup {NoAddress} :
        /\ commandQueue' = [commandQueue EXCEPT !.items = Append(@, x)]
        /\ x # NoAddress => x = receiver.at
        /\ receiver' = [receiver EXCEPT !.at = IF x = NoAddress THEN receiver.at ELSE NoAddress]
  <2>1. CASE Enqueue
    <3>1. receiver.at \in Address \cup {NoAddress}
      BY <1>2
    <3> QED
      BY Zenon, <2>1, <3>1 DEF Enqueue
  <2>2. CASE BenchmarkEnqueues
    <3>1. receiver' = [receiver EXCEPT !.at = receiver.at]
      BY <1>2, <2>2 DEF BenchmarkEnqueues
    <3> QED
      BY Zenon, <2>2, <3>1 DEF BenchmarkEnqueues
  <2> QED
    BY Zenon, <2>1, <2>2
<1> DEFINE items == commandQueue.items
           new == commandQueue'.items
<1>4. items \in Seq(Address \cup {NoAddress}) /\ new = Append(items, x)
      /\ commandQueue' \in [items : Seq(Address \cup {NoAddress}), stopped : BOOLEAN]
  <2>1. items \in Seq(Address \cup {NoAddress}) /\ new = Append(items, x)
    BY <1>2, <1>3
  <2>2. Append(items, x) \in Seq(Address \cup {NoAddress})
    BY <2>1
  <2>3. commandQueue' = [commandQueue EXCEPT !.items = Append(items, x)]
    BY Zenon, <1>3
  <2> HIDE DEF items
  <2> QED
    BY Zenon, <1>2, <2>1, <2>2, <2>3
<1> HIDE DEF items, new
<1>5. /\ Len(items) \in Nat /\ Len(new) = Len(items) + 1 /\ new[Len(new)] = x
      /\ \A i \in 1 .. Len(items) : i \in 1 .. Len(new) /\ new[i] = items[i]
  BY <1>4
<1>6. /\ receiver'.server = receiver.server /\ receiver'.isShutdown = receiver.isShutdown
      /\ receiver'.thread = receiver.thread
      /\ receiver'.at = (IF x = NoAddress THEN receiver.at ELSE NoAddress)
      /\ receiver' \in [server : {"none", "up", "shutdown", "drained"}, isShutdown : BOOLEAN,
                        thread : {"none", "running", "ended"}, at : Address \cup {NoAddress}]
  BY <1>2, <1>3
<1>7. ReceiverTypeOK'
  BY Zenon, <1>1, <1>4, <1>6 DEF ReceiverTypeOK
<1>8. ~Early /\ ~Early'
  <2>1. receiver.thread # "none" \/ threads["benchmark"] # "none"
    BY DEF Enqueue, BenchmarkEnqueues
  <2>2. "benchmark" \in Thread
    BY DEF Thread
  <2>3. ~Early
    BY Zenon, <1>1, <2>1, <2>2 DEF NothingBeforeListening
  <2> QED
    BY Zenon, <2>3 DEF Early
<1>9. NothingBeforeListening'
  BY Zenon, <1>1, <1>6, <1>8 DEF NothingBeforeListening
<1>10. OneHolder'
  <2>1. \A a \in Address : Queued(a)' <=> Queued(a) \/ a = x
    <3> TAKE a \in Address
    <3>1. ASSUME Queued(a) PROVE Queued(a)'
      BY Zenon, <1>5, <3>1 DEF Queued, items, new
    <3>2. ASSUME a = x PROVE Queued(a)'
      <4>1. Len(new) \in 1 .. Len(new)
        BY <1>5
      <4> QED
        BY Zenon, <1>5, <3>2, <4>1 DEF Queued, new
    <3>3. ASSUME Queued(a)', a # x PROVE Queued(a)
      <4>1. PICK i \in 1 .. Len(new) : new[i] = a
        BY Zenon, <3>3 DEF Queued, new
      <4>2. i \in 1 .. Len(items)
        BY <1>5, <3>3, <4>1
      <4> QED
        BY Zenon, <1>5, <4>1, <4>2 DEF Queued, items
    <3> QED
      BY Zenon, <3>1, <3>2, <3>3
  <2>2. \A a \in Address : a = receiver.at <=> a = receiver'.at \/ a = x
    BY <1>3, <1>6, AddressAssumption
  <2>3. x \in Address => ~Queued(x) /\ x # receiver'.at /\ x \notin inFlight
    <3> HAVE x \in Address
    <3>1. x = receiver.at /\ receiver'.at = NoAddress
      BY <1>3, <1>6, AddressAssumption
    <3> QED
      BY Zenon, <1>1, <3>1, AddressAssumption DEF OneHolder
  <2>4. \A a \in Address : calls'[a].at = "commanded" <=> a \in inFlight' \/ Queued(a)' \/ a = receiver'.at
    BY Zenon, <1>1, <2>1, <2>2 DEF OneHolder
  <2>5. \A i, j \in 1 .. Len(new) : new[i] = new[j] => i = j \/ new[i] = NoAddress
    <3>1. \A i, j \in 1 .. Len(items) : items[i] = items[j] => i = j \/ items[i] = NoAddress
      BY Zenon, <1>1 DEF OneHolder, items
    <3>2. \A i \in 1 .. Len(items) : x \in Address => items[i] # x
      BY Zenon, <2>3 DEF Queued, items
    <3>3. \A i \in 1 .. Len(new) : i \in 1 .. Len(items) \/ i = Len(new)
      BY <1>5
    <3>4. x \in Address \/ x = NoAddress
      OBVIOUS
    <3> QED
      BY Zenon, <1>5, <3>1, <3>2, <3>3, <3>4
  <2>6. \A a \in Address : ~(a \in inFlight' /\ Queued(a)') /\ ~(a \in inFlight' /\ a = receiver'.at)
                           /\ ~(Queued(a)' /\ a = receiver'.at)
    BY Zenon, <1>1, <2>1, <2>2, <2>3 DEF OneHolder
  <2> QED
    BY Zenon, <2>4, <2>5, <2>6 DEF OneHolder, new
<1>11. receiver'.isShutdown <=> receiver'.server \in {"shutdown", "drained"}
  BY Zenon, <1>1, <1>6 DEF RefusedByShutdown
<1> QED
  BY Zenon, <1>6, <1>7, <1>9, <1>10, <1>11, SameCalls


\* The command process loop takes a command.
LEMMA RunDistributedKeeps ==
  ASSUME AppInv, RunDistributed
  PROVE  AppInv'
<1>1. ReceiverTypeOK /\ NothingBeforeListening /\ OneHolder /\ RefusedByShutdown
  BY Zenon DEF AppInv
<1> DEFINE items == commandQueue.items
           new == commandQueue'.items
           first == Head(items)
<1>2. /\ items \in Seq(Address \cup {NoAddress}) /\ items # <<>> /\ new = Tail(items)
      /\ commandQueue' \in [items : Seq(Address \cup {NoAddress}), stopped : BOOLEAN]
  <2>1. commandQueue \in [items : Seq(Address \cup {NoAddress}), stopped : BOOLEAN]
    BY Zenon, <1>1 DEF ReceiverTypeOK
  <2>2. items \in Seq(Address \cup {NoAddress}) /\ items # <<>> /\ new = Tail(items)
    BY <2>1 DEF RunDistributed
  <2>3. Tail(items) \in Seq(Address \cup {NoAddress})
    BY <2>2
  <2>4. commandQueue' = [commandQueue EXCEPT !.items = Tail(items)]
    BY Zenon DEF RunDistributed
  <2> HIDE DEF items
  <2> QED
    BY Zenon, <2>1, <2>2, <2>3, <2>4
<1>3. /\ UNCHANGED <<calls, receiver, main>> /\ inFlight' = inFlight \cup ({first} \ {NoAddress})
      /\ threads["cpl"] = "dequeue"
  BY Zenon DEF RunDistributed
<1> HIDE DEF items, new, first
<1>4. /\ first \in Address \cup {NoAddress} /\ first = items[1] /\ 1 \in 1 .. Len(items)
      /\ Len(items) \in Nat /\ Len(new) = Len(items) - 1
      /\ \A i \in 1 .. Len(new) : i + 1 \in 2 .. Len(items) /\ new[i] = items[i + 1]
  BY <1>2 DEF first
<1>5. inFlight' \in SUBSET Address
  <2>1. inFlight \in SUBSET Address
    BY Zenon, <1>1 DEF ReceiverTypeOK
  <2> QED
    BY <1>3, <1>4, <2>1
<1>6. ReceiverTypeOK'
  BY Zenon, <1>1, <1>2, <1>3, <1>5 DEF ReceiverTypeOK
<1>7. ~Early /\ ~Early'
  <2>1. "cpl" \in Thread /\ threads["cpl"] # "none"
    BY <1>3 DEF Thread
  <2>2. ~Early
    BY Zenon, <1>1, <2>1 DEF NothingBeforeListening
  <2> QED
    BY Zenon, <1>3, <2>2 DEF Early
<1>8. NothingBeforeListening'
  BY Zenon, <1>1, <1>3, <1>7 DEF NothingBeforeListening
<1>9. \A i, j \in 1 .. Len(items) : items[i] = items[j] => i = j \/ items[i] = NoAddress
  BY Zenon, <1>1 DEF OneHolder, items
<1>10. \A a \in Address : Queued(a) <=> Queued(a)' \/ a = first
  <2> TAKE a \in Address
  <2>1. ASSUME Queued(a)' PROVE Queued(a)
    <3>1. PICK i \in 1 .. Len(new) : new[i] = a
      BY Zenon, <2>1 DEF Queued, new
    <3>2. i + 1 \in 1 .. Len(items) /\ items[i + 1] = a
      BY <1>4, <3>1
    <3> QED
      BY Zenon, <3>2 DEF Queued, items
  <2>2. ASSUME a = first PROVE Queued(a)
    BY Zenon, <1>4, <2>2 DEF Queued, items
  <2>3. ASSUME Queued(a), a # first PROVE Queued(a)'
    <3>1. PICK i \in 1 .. Len(items) : items[i] = a
      BY Zenon, <2>3 DEF Queued, items
    <3>2. i - 1 \in 1 .. Len(new) /\ new[i - 1] = items[i]
      BY <1>4, <2>3, <3>1
    <3> QED
      BY Zenon, <3>1, <3>2 DEF Queued, new
  <2> QED
    BY Zenon, <2>1, <2>2, <2>3
<1>11. \A a \in Address : a = first => ~Queued(a)'
  <2> SUFFICES ASSUME NEW a \in Address, a = first, Queued(a)' PROVE FALSE
    BY Zenon
  <2>1. PICK i \in 1 .. Len(new) : new[i] = first
    BY Zenon DEF Queued, new
  <2>2. i + 1 \in 1 .. Len(items) /\ items[i + 1] = items[1] /\ i + 1 # 1
    BY <1>4, <2>1
  <2>3. items[i + 1] = NoAddress
    BY Zenon, <1>4, <1>9, <2>2
  <2> QED
    BY Zenon, <1>4, <2>2, <2>3, AddressAssumption
<1>12. \A a \in Address : a \in inFlight' <=> a \in inFlight \/ a = first
  BY <1>3, AddressAssumption
<1>13. OneHolder'
  <2>1. \A a \in Address : calls'[a].at = "commanded" <=> a \in inFlight' \/ Queued(a)' \/ a = receiver'.at
    BY Zenon, <1>1, <1>3, <1>10, <1>12 DEF OneHolder
  <2>2. \A i, j \in 1 .. Len(new) : new[i] = new[j] => i = j \/ new[i] = NoAddress
    <3> TAKE i, j \in 1 .. Len(new)
    <3> HAVE new[i] = new[j]
    <3>1. i + 1 \in 1 .. Len(items) /\ j + 1 \in 1 .. Len(items)
      BY <1>4
    <3>2. items[i + 1] = items[j + 1] /\ new[i] = items[i + 1]
      BY Zenon, <1>4
    <3>3. i + 1 = j + 1 \/ items[i + 1] = NoAddress
      BY Zenon, <1>9, <3>1, <3>2
    <3>4. i + 1 = j + 1 => i = j
      OBVIOUS
    <3> QED
      BY Zenon, <3>2, <3>3, <3>4
  <2>3. \A a \in Address : ~(a \in inFlight' /\ Queued(a)') /\ ~(a \in inFlight' /\ a = receiver'.at)
                           /\ ~(Queued(a)' /\ a = receiver'.at)
    BY Zenon, <1>1, <1>3, <1>10, <1>11, <1>12 DEF OneHolder
  <2> QED
    BY Zenon, <2>1, <2>2, <2>3 DEF OneHolder, new
<1>14. receiver'.isShutdown <=> receiver'.server \in {"shutdown", "drained"}
  BY Zenon, <1>1, <1>3 DEF RefusedByShutdown
<1> QED
  BY Zenon, <1>3, <1>6, <1>8, <1>13, <1>14, SameCalls

\* The queue is stopped: what is in it stays.
LEMMA ShutdownQueueKeeps ==
  ASSUME AppInv, ShutdownQueue
  PROVE  AppInv'
<1>1. ReceiverTypeOK /\ NothingBeforeListening /\ OneHolder /\ RefusedByShutdown
  BY Zenon DEF AppInv
<1>2. UNCHANGED <<calls, receiver, inFlight, main, threads>>
  BY Zenon DEF ShutdownQueue
<1>3. /\ commandQueue'.items = commandQueue.items
      /\ commandQueue' \in [items : Seq(Address \cup {NoAddress}), stopped : BOOLEAN]
  <2>1. commandQueue \in [items : Seq(Address \cup {NoAddress}), stopped : BOOLEAN]
    BY Zenon, <1>1 DEF ReceiverTypeOK
  <2>2. commandQueue' = [commandQueue EXCEPT !.stopped = TRUE]
    BY Zenon DEF ShutdownQueue
  <2> QED
    BY Zenon, <2>1, <2>2
<1>4. ReceiverTypeOK'
  BY Zenon, <1>1, <1>2, <1>3 DEF ReceiverTypeOK
<1>5. NothingBeforeListening'
  BY Zenon, <1>1, <1>2, <1>3 DEF NothingBeforeListening, Early
<1>6. OneHolder'
  BY Zenon, <1>1, <1>2, <1>3 DEF OneHolder, Queued
<1>7. receiver'.isShutdown <=> receiver'.server \in {"shutdown", "drained"}
  BY Zenon, <1>1, <1>2 DEF RefusedByShutdown
<1> QED
  BY Zenon, <1>2, <1>4, <1>5, <1>6, <1>7, SameCalls

-----------------------------------------------------------------------------
(* The invariant.                                                          *)

\* It holds when the process starts.
LEMMA AppInvInit == AppInit => AppInv
<1> SUFFICES ASSUME AppInit PROVE AppInv
  OBVIOUS
<1>1. /\ calls = [a \in Address |-> Free] /\ main = "construct"
      /\ receiver = [server |-> "none", isShutdown |-> FALSE, thread |-> "none", at |-> NoAddress]
      /\ commandQueue = [items |-> <<>>, stopped |-> FALSE]
      /\ inFlight = {}
      /\ threads = [t \in Thread |-> "none"]
  BY Zenon DEF AppInit, ReceiverInit
<1>2. \A a \in Address : calls[a] = Free /\ calls[a].at = "free"
  BY <1>1 DEF Free
<1>3. ReceiverTypeOK
  <2>1. calls \in [Address -> Call]
    BY <1>1 DEF Free, Call, States
  <2>2. /\ receiver \in [server : {"none", "up", "shutdown", "drained"}, isShutdown : BOOLEAN,
                         thread : {"none", "running", "ended"}, at : Address \cup {NoAddress}]
        /\ commandQueue \in [items : Seq(Address \cup {NoAddress}), stopped : BOOLEAN]
        /\ inFlight \in SUBSET Address
    BY <1>1
  <2> QED
    BY Zenon, <1>2, <2>1, <2>2 DEF ReceiverTypeOK
<1>4. NothingBeforeListening
  <2>1. \A t \in Thread : threads[t] = "none"
    BY <1>1
  <2>2. main # "startReceiving" /\ main # "preSpawn" /\ receiver.thread = "none"
        /\ receiver.at = NoAddress /\ commandQueue.items = <<>>
    BY <1>1
  <2> QED
    BY Zenon, <1>1, <1>2, <2>1, <2>2 DEF NothingBeforeListening
<1>5. OneHolder
  <2>1. \A i \in 1 .. Len(commandQueue.items) : FALSE
    BY <1>1
  <2>2. \A a \in Address : a # receiver.at /\ a \notin inFlight /\ ~Queued(a) /\ calls[a].at # "commanded"
    BY <1>1, <1>2, <2>1, AddressAssumption DEF Queued
  <2> QED
    BY Zenon, <2>1, <2>2 DEF OneHolder
<1>6. RefusedByShutdown
  BY <1>1, <1>2 DEF RefusedByShutdown
<1>7. RoomToSpawn
  <2>1. Spawning = {}
    BY <1>2 DEF Spawning
  <2>2. FreeAddresses \in SUBSET Address
    BY DEF FreeAddresses
  <2>3. Cardinality(Spawning) = 0 /\ Cardinality(FreeAddresses) \in Nat
    BY Zenon, <2>1, <2>2, Counted, FS_EmptySet
  <2> QED
    BY <2>3 DEF RoomToSpawn
<1>8. ServedSinceListening
  BY <1>1 DEF ServedSinceListening
<1> QED
  BY Zenon, <1>3, <1>4, <1>5, <1>6, <1>7, <1>8 DEF AppInv


\* run() goes on without touching the receiver: it starts or joins a thread, or ends.
LEMMA RunKeeps ==
  ASSUME AppInv, Construct \/ Run
  PROVE  AppInv'
<1>1. ASSUME UNCHANGED receiverVars,
             main' \notin {"construct", "run", "startListen", "preSpawn", "startReceiving"}
      PROVE  AppInv'
  <2>1. ~Early' /\ main' # "startReceiving" /\ main' # "preSpawn"
    BY <1>1 DEF Early
  <2> QED
    BY Zenon, <1>1, <2>1, UntouchedKeeps
<1>2. ASSUME UNCHANGED receiverVars, UNCHANGED threads, Early, main' \in {"run", "startListen"}
      PROVE  AppInv'
  <2>1. main' # "startReceiving" /\ main' # "preSpawn"
    BY <1>2
  <2> QED
    BY Zenon, <1>2, <2>1, UntouchedKeeps
<1>3. CASE Construct
  <2>1. UNCHANGED receiverVars /\ UNCHANGED threads /\ Early /\ main' \in {"run", "aborted"}
    BY <1>3 DEF Construct, Early
  <2> QED
    BY <1>1, <1>2, <2>1
<1>4. CASE CheckRun
  <2>1. UNCHANGED receiverVars /\ UNCHANGED threads /\ Early /\ main' \in {"startListen", "returned"}
    BY <1>4 DEF CheckRun, MainMoves, Early
  <2> QED
    BY <1>1, <1>2, <2>1
<1>5. CASE StartRequestReceiver
  <2>1. UNCHANGED threads
    BY Zenon, <1>5 DEF StartRequestReceiver
  <2>2. CASE MainMoves("preSpawn", "startReceiving") /\ PreSpawn
    BY Zenon, <2>1, <2>2, PreSpawnKeeps
  <2>3. CASE MainMoves("startListen", "preSpawn") /\ BuildAndStart
    BY Zenon, <2>1, <2>3, ReceiverMoves
  <2>4. CASE MainMoves("startReceiving", "startNetAdmin") /\ StartReceiver
    BY Zenon, <2>1, <2>4, ReceiverMoves
  <2> QED
    BY Zenon, <1>5, <2>2, <2>3, <2>4 DEF StartRequestReceiver
<1>6. CASE PreSpawnTooLate \/ JoinServerThread
  <2>1. UNCHANGED receiverVars /\ main' = "aborted"
    BY Zenon, <1>6 DEF PreSpawnTooLate, JoinServerThread, MainMoves
  <2> QED
    BY <1>1, <2>1
<1>7. ASSUME NEW t, NEW from, NEW to, StartThread(t, from, to) \/ JoinThread(t, from, to)
      PROVE  UNCHANGED receiverVars /\ main' = to
  BY Zenon, <1>7 DEF StartThread, JoinThread, MainMoves
<1>8. CASE \/ StartNetAdminServer \/ StartPersistLoop \/ StartEventApplyLoop
           \/ StartProcessCommandLoop \/ StartBenchmark
  <2>1. UNCHANGED receiverVars /\ main' \in {"startPersist", "startEal", "startCpl", "startBenchmark",
                                             "joinCpl", "joinBenchmark"}
    <3>1. CASE StartNetAdminServer
      BY <1>7, <3>1 DEF StartNetAdminServer
    <3>2. CASE StartPersistLoop
      BY <1>7, <3>2 DEF StartPersistLoop
    <3>3. CASE StartEventApplyLoop
      BY <1>7, <3>3 DEF StartEventApplyLoop
    <3>4. CASE StartProcessCommandLoop
      BY <1>7, <3>4 DEF StartProcessCommandLoop
    <3>5. CASE StartBenchmark
      BY <1>7, <3>5 DEF StartBenchmark
    <3> QED
      BY <1>8, <3>1, <3>2, <3>3, <3>4, <3>5
  <2> QED
    BY <1>1, <2>1
<1>9. CASE \/ JoinThread("benchmark", "joinBenchmark", "joinCpl")
           \/ JoinThread("cpl", "joinCpl", "joinEal")
           \/ JoinThread("eal", "joinEal", "joinPersist")
           \/ JoinThread("persist", "joinPersist", "joinNetAdmin")
           \/ JoinThread("netAdmin", "joinNetAdmin", "joinServer")
  <2>1. UNCHANGED receiverVars
        /\ main' \in {"joinCpl", "joinEal", "joinPersist", "joinNetAdmin", "joinServer"}
    BY Zenon, <1>7, <1>9
  <2> QED
    BY <1>1, <2>1
<1> QED
  BY Zenon, <1>3, <1>4, <1>5, <1>6, <1>8, <1>9 DEF Run

\* The threads and App::shutdown, where they leave the receiver alone or end the process.
LEMMA ThreadsKeep ==
  ASSUME AppInv,
         \/ RunNetAdmin \/ RunPersist \/ RunEventApplyLoop \/ TestShouldExit \/ DequeueStopped
         \/ BenchmarkCounts \/ ShutdownNetAdmin \/ ShutdownLoops
         \/ UNCHANGED receiverVars /\ UNCHANGED threads /\ main' \in {main, "aborted"}
  PROVE  AppInv'
<1>1. UNCHANGED receiverVars /\ main' \in {main, "aborted"}
  BY Zenon DEF RunNetAdmin, RunPersist, RunEventApplyLoop, TestShouldExit, DequeueStopped,
               BenchmarkCounts, ShutdownNetAdmin, ShutdownLoops
<1>2. /\ Early' => Early
      /\ main' = "startReceiving" => main = "startReceiving"
      /\ main' = "preSpawn" => main = "preSpawn"
  BY <1>1 DEF Early
<1>3. ASSUME Early PROVE UNCHANGED threads
  <2>1. \A t \in Thread : threads[t] = "none"
    BY Zenon, <1>3 DEF AppInv, NothingBeforeListening
  <2>2. threads["netAdmin"] = "none" /\ threads["persist"] = "none" /\ threads["eal"] = "none"
        /\ threads["cpl"] = "none"
    BY <2>1 DEF Thread
  <2>3. ~RunNetAdmin /\ ~RunPersist /\ ~RunEventApplyLoop /\ ~TestShouldExit /\ ~DequeueStopped
    BY <2>2 DEF RunNetAdmin, RunPersist, RunEventApplyLoop, TestShouldExit, DequeueStopped
  <2> QED
    BY Zenon, <2>3 DEF BenchmarkCounts, ShutdownNetAdmin, ShutdownLoops
<1> QED
  BY Zenon, <1>1, <1>2, <1>3, UntouchedKeeps

\* It is inductive.
LEMMA AppInvStep == AppInv /\ [Next]_vars => AppInv'
<1> SUFFICES ASSUME AppInv, [Next]_vars PROVE AppInv'
  OBVIOUS
<1>1. CASE Construct \/ Run
  BY Zenon, <1>1, RunKeeps
<1>2. CASE \/ RunNetAdmin \/ RunPersist \/ RunEventApplyLoop \/ TestShouldExit \/ DequeueStopped
           \/ BenchmarkCounts
  BY Zenon, <1>2, ThreadsKeep
<1>3. CASE RunDistributed
  BY Zenon, <1>3, RunDistributedKeeps
<1>4. CASE \E a \in Address : Reply(a)
  BY Zenon, <1>4, ReplyKeeps
<1>5. CASE BenchmarkEnqueues
  <2>1. UNCHANGED <<calls, inFlight, main>>
    BY Zenon, <1>5 DEF BenchmarkEnqueues
  <2> QED
    BY Zenon, <1>5, <2>1, EnqueueKeeps
<1>6. CASE Shutdown
  <2>1. CASE ShutdownQueue
    BY Zenon, <2>1, ShutdownQueueKeeps
  <2>2. CASE ShutdownNetAdmin \/ ShutdownLoops
    BY Zenon, <2>2, ThreadsKeep
  <2>3. CASE StopReceiver
    <3>1. CASE BeginStop /\ UNCHANGED <<main, threads>>
      BY Zenon, <3>1, BeginStopKeeps
    <3>2. CASE ShutdownCompletionQueue /\ UNCHANGED <<main, threads>>
      BY Zenon, <3>2, ReceiverMoves
    <3>3. CASE (\E a \in Address : Drain(a)) /\ UNCHANGED appVars
      BY Zenon, <3>3, TagsKeep
    <3>4. CASE UNCHANGED receiverVars /\ UNCHANGED threads /\ (main' = "aborted" \/ main' = main)
      <4>1. main' \in {main, "aborted"}
        BY <3>4
      <4> QED
        BY Zenon, <3>4, <4>1, ThreadsKeep
    <3> QED
      BY Zenon, <2>3, <3>1, <3>2, <3>3, <3>4 DEF StopReceiver
  <2> QED
    BY Zenon, <1>6, <2>1, <2>2, <2>3 DEF Shutdown
<1>7. CASE HandleRpcs
  <2>1. UNCHANGED appVars /\ UNCHANGED <<main, threads>>
    BY Zenon, <1>7 DEF HandleRpcs, appVars
  <2>2. CASE Enqueue
    <3>1. UNCHANGED <<calls, inFlight>>
      BY Zenon, <2>2 DEF Enqueue
    <3> QED
      BY Zenon, <2>1, <2>2, <3>1, EnqueueKeeps
  <2>3. CASE EndReceiver
    BY Zenon, <2>1, <2>3, ReceiverMoves
  <2>4. ASSUME NEW a \in Address, HandleTag(a) PROVE AppInv'
    <3>1. ASSUME NEW m, Proceed(a, m) PROVE AppInv'
      <4>1. /\ AtNext /\ calls[a] = [at |-> "arrived", method |-> m]
            /\ UNCHANGED <<commandQueue, inFlight>>
        BY Zenon, <3>1 DEF Proceed
      <4>2. PICK valid \in BOOLEAN : Process(a, valid)
        BY Zenon, <3>1 DEF Proceed
      <4>3. calls[a].at = "arrived"
        BY <4>1
      <4> QED
        BY Zenon, <2>1, <4>1, <4>2, <4>3, ProcessKeeps
    <3> QED
      BY Zenon, <2>1, <2>4, <3>1, ProceedFinishedKeeps, FailOverKeeps
         DEF HandleTag, ProceedCreateAccount, ProceedConfigureAccountMetadata
  <2> QED
    BY Zenon, <1>7, <2>2, <2>3, <2>4 DEF HandleRpcs
<1>8. CASE Grpc
  BY Zenon, <1>8, TagsKeep DEF Grpc
<1>9. CASE UNCHANGED vars
  <2>1. UNCHANGED receiverVars /\ UNCHANGED threads /\ main' = main
    BY Zenon, <1>9 DEF vars, appVars
  <2>2. main' \in {main, "aborted"}
    BY <2>1
  <2> QED
    BY Zenon, <2>1, <2>2, ThreadsKeep
<1> QED
  BY Zenon, <1>1, <1>2, <1>3, <1>4, <1>5, <1>6, <1>7, <1>8, <1>9 DEF Next

(***************************************************************************)
(* Every state of the process satisfies the inductive invariant: before    *)
(* startListen there is nothing, each handle is in one place, a CallData   *)
(* is refused by a shutdown only, and the tags on their way find an        *)
(* address for what they spawn.                                            *)
(***************************************************************************)
THEOREM AppInvariant == Spec => []AppInv
BY AppInvInit, AppInvStep, PTL DEF Spec

(***************************************************************************)
(* RequestHandle never dangles: a command of CommandQueue or of the        *)
(* pipeline, and the one that the receiver's thread enqueues, hold the     *)
(* only handle to a CallData that is alive and waits for its answer,       *)
(* whatever clients and App::shutdown do.                                  *)
(***************************************************************************)
THEOREM AppHandlesAreAlive == Spec => []HandlesAreAlive
<1>1. AppInv => HandlesAreAlive
  <2> SUFFICES ASSUME AppInv PROVE HandlesAreAlive
    OBVIOUS
  <2>1. ReceiverTypeOK /\ OneHolder
    BY Zenon DEF AppInv
  <2> DEFINE items == commandQueue.items
             held == inFlight \cup (Range(items) \ {NoAddress}) \cup ({receiver.at} \ {NoAddress})
  <2>2. items \in Seq(Address \cup {NoAddress}) /\ inFlight \in SUBSET Address
    BY <2>1 DEF ReceiverTypeOK
  <2>3. /\ \A i \in 1 .. Len(items) : items[i] \in Address \cup {NoAddress}
        /\ DOMAIN items = 1 .. Len(items)
    <3> HIDE DEF items
    <3> QED
      BY <2>2
  <2>4. \A a \in Address : a \in Range(items) <=> Queued(a)
    BY Zenon, <2>3 DEF Range, Queued
  <2>5. \A a \in Address : a \in held <=> a \in inFlight \/ Queued(a) \/ a = receiver.at
    <3>1. \A a \in Address : a # NoAddress
      BY Zenon, AddressAssumption
    <3> HIDE DEF items
    <3> QED
      BY <2>4, <3>1
  <2>6. \A a \in Address : calls[a].at = "commanded" <=> a \in held
    <3> HIDE DEF held
    <3> QED
      BY Zenon, <2>1, <2>5 DEF OneHolder
  <2>7. \A i \in 1 .. Len(items) : items[i] \notin inFlight \cup ({receiver.at} \ {NoAddress})
    <3> SUFFICES ASSUME NEW i \in 1 .. Len(items) PROVE items[i] \notin inFlight \cup ({receiver.at} \ {NoAddress})
      OBVIOUS
    <3>1. CASE items[i] = NoAddress
      <4>1. NoAddress \notin inFlight
        BY Zenon, <2>2, AddressAssumption
      <4> HIDE DEF items
      <4> QED
        BY <3>1, <4>1
    <3>2. CASE items[i] \in Address
      <4>1. items[i] \notin inFlight /\ items[i] # receiver.at
        BY Zenon, <2>1, <3>2 DEF OneHolder, Queued
      <4> HIDE DEF items
      <4> QED
        BY <4>1
    <3> QED
      BY Zenon, <2>3, <3>1, <3>2
  <2> QED
    BY Zenon, <2>1, <2>6, <2>7 DEF HandlesAreAlive, OneHolder
<1> QED
  BY <1>1, AppInvariant, PTL

(***************************************************************************)
(* The server never goes deaf: while the receiver is not stopped, every    *)
(* method has a CallData that listens, or one with a request, whose        *)
(* proceed spawns the next.                                                *)
(***************************************************************************)
THEOREM AppEveryMethodIsServed == Spec => []EveryMethodIsServed
<1>1. AppInv => EveryMethodIsServed
  BY Zenon DEF AppInv, ServedSinceListening, Served, EveryMethodIsServed
<1> QED
  BY <1>1, AppInvariant, PTL
=============================================================================
