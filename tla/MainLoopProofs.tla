------------------------------ MODULE MainLoopProofs ------------------------------
(***************************************************************************)
(* Proofs about MainLoop, for every number of crates, viewers, descriptors *)
(* and yields, whatever connections are refused and whoever prompts.       *)
(*                                                                         *)
(* LoopInv is inductive.  Its part Sound says who holds a mutex, what a    *)
(* lock word tells of its worker, that main_fdset names open sockets only  *)
(* and what main has at hand; it holds always.  Its part Apart says that   *)
(* the descriptor sets are separate, that the tables name their members    *)
(* (but for the connection main is about to forget), and that the crate    *)
(* main reads is not locked by a worker; it holds until main reads the     *)
(* socket of a locked crate during a prompt (overheard).  One lemma per    *)
(* action and part shows that it is kept; the safety properties follow.    *)
(***************************************************************************)
EXTENDS MainLoop, FiniteSetTheorems, WellFoundedInduction, TLAPS

\* The constants' layout: device, listener and descriptor numbers do not collide.
LEMMA Numbers ==
  /\ Sbc \in Workers /\ Crates \subseteq Workers /\ Sbc \notin Crates
  /\ \A w \in Workers : w # Sbc => w \in Crates
  /\ NoFd \notin Fds /\ Listeners \cap Fds = {}
  /\ Main # Sbc /\ Main # Nobody /\ Sbc # Nobody
BY MainLoopConstantsOK
DEF Sbc, Workers, Crates, NoFd, Fds, Listeners, Main, Nobody

\* Lowest picks a member of the set: the natural numbers are well-founded.
LEMMA LowestIsMember ==
  ASSUME NEW S, S \subseteq Listeners \cup Fds, S # {} PROVE Lowest(S) \in S
<1>1. S \subseteq Nat
  BY MainLoopConstantsOK DEF Listeners, Fds
<1>2. \E f \in S : \A g \in S : f <= g
  <2>1. PICK f \in S : \A g \in S : ~ (<<g, f>> \in OpToRel(<, Nat))
    BY <1>1, NatLessThanWellFounded, WFMin
  <2>2. \A g \in S : ~ (g < f)
    BY <1>1, <2>1 DEF OpToRel
  <2>3. QED
    BY <1>1, <2>2
<1>3. QED
  BY <1>2 DEF Lowest

\* Every set of descriptors is finite, so that it can be counted.
LEMMA FiniteFds == \A S \in SUBSET Fds : IsFiniteSet(S)
<1>1. IsFiniteSet(Fds)
  BY FS_Interval, MainLoopConstantsOK DEF Fds
<1>2. QED
  BY <1>1, FS_Subset

\* Where a worker can be.
WorkerStates == {"none", "run", "close", "want yield", "yield", "want relock",
                 "control", "connect", "over"}

\* A set of descriptors has a size, and one member more or less changes it by one at most.
LEMMA SizeOfSet ==
  ASSUME NEW S \in SUBSET Fds, NEW f \in Fds
  PROVE  /\ Cardinality(S) \in Nat /\ Cardinality(S \cup {f}) \in Nat
         /\ Cardinality(S \ {f}) \in Nat
         /\ Cardinality(S \cup {f}) = IF f \in S THEN Cardinality(S) ELSE Cardinality(S) + 1
         /\ Cardinality(S \ {f}) = IF f \in S THEN Cardinality(S) - 1 ELSE Cardinality(S)
<1>1. IsFiniteSet(S)
  BY FiniteFds
<1>2. Cardinality(S) \in Nat /\ IsFiniteSet(S \cup {f}) /\ IsFiniteSet(S \ {f})
  BY <1>1, FS_CardinalityType, FS_AddElement, FS_RemoveElement
<1>3. Cardinality(S \cup {f}) = IF f \in S THEN Cardinality(S) ELSE Cardinality(S) + 1
  BY <1>1, FS_AddElement
<1>4. Cardinality(S \ {f}) = IF f \in S THEN Cardinality(S) - 1 ELSE Cardinality(S)
  BY <1>1, FS_RemoveElement
<1>5. QED
  BY <1>2, <1>3, <1>4, FS_CardinalityType

\* One worker moves and its lock word with it.
LEMMA WorkerMoves ==
  ASSUME Sound, NEW w \in Workers, NEW p \in WorkerStates, NEW v \in {0, 1, 2},
         wpc' = [wpc EXCEPT ![w] = p], lock' = [lock EXCEPT ![w] = v],
         v = 0 <=> p = "none",
         v = 2 <=> p \in {"yield", "want relock"},
         w # Sbc => p \notin {"control", "connect", "over"}
  PROVE  /\ LocksMatch'
         /\ lock' \in [Workers -> {0, 1, 2}]
         /\ wpc' \in [Workers -> WorkerStates]
         /\ \A u \in Workers : wpc'[u] = IF u = w THEN p ELSE wpc[u]
         /\ \A u \in Workers : lock'[u] = IF u = w THEN v ELSE lock[u]
BY DEF Sound, TypeOK, LocksMatch, WorkerStates

-----------------------------------------------------------------------------
(* Sound is kept, whatever main reads                                       *)

\* Sound looks at sockets only through the set of closed ones: a step that changes
\* nothing else it speaks of keeps it.
LEMMA SoundFrame ==
  ASSUME Sound, TypeOK', Closed' = Closed,
         UNCHANGED <<main_fdset, view_fdset, views_connected, lock, mutexes, mpc, temp, cur,
                     crate, wpc>>
  PROVE  Sound'
BY DEF Sound, SelectsOpenSockets, MutexesHeld, LocksMatch, MainSetOpen, AtHand, Open, mutexes

\* A client that connects to a listening socket keeps Sound.
LEMMA SoundClientConnects ==
  ASSUME Sound, NEW l \in Listeners, ClientConnects(l) PROVE Sound'
<1>1. TypeOK'
  BY DEF Sound, TypeOK, ClientConnects, setVars, tableVars, mutexes, mainVars, workVars, tutVars
<1>2. QED
  BY <1>1, SoundFrame DEF ClientConnects, setVars, tableVars, mainVars, workVars, Closed

\* A thread begins to prompt or has its answer.
LEMMA SoundPrompt == ASSUME Sound, Prompt PROVE Sound'
<1>1. reading_from_tut' \in {0, 1}
  <2>1. reading_from_tut \in {0, 1}
    BY DEF Sound, TypeOK
  <2>2. 1 - reading_from_tut \in {0, 1}
    BY <2>1
  <2>3. QED
    BY <2>2 DEF Prompt
<1>2. TypeOK'
  BY <1>1 DEF Sound, TypeOK, Prompt, netVars, setVars, tableVars, mutexes, mainVars, workVars
<1>3. QED
  BY <1>2, SoundFrame DEF Prompt, netVars, setVars, tableVars, mainVars, workVars, Closed

\* Data that arrives, is read by a worker, or a peer that goes: no socket opens or closes.
LEMMA SoundTraffic ==
  ASSUME Sound, NEW f \in Fds, NEW w \in Workers, Sends(f) \/ HangsUp(f) \/ GetAnswer(w)
  PROVE  Sound'
<1>1. UNCHANGED <<waiting, setVars, tableVars, lock, mutexes, mainVars, workVars, tutVars>>
  BY DEF Sends, HangsUp, GetAnswer
<1>2. /\ sock' \in [Fds -> {"closed", "quiet", "data", "gone"}]
      /\ \A g \in Fds : sock'[g] = "closed" <=> sock[g] = "closed"
  BY DEF Sound, TypeOK, Sends, HangsUp, GetAnswer
<1>3. TypeOK' /\ Closed' = Closed
  BY <1>1, <1>2
  DEF Sound, TypeOK, Closed, setVars, tableVars, mutexes, mainVars, workVars, tutVars
<1>4. QED
  BY <1>1, <1>3, SoundFrame DEF setVars, tableVars, mainVars, workVars

\* Main takes main_fdset_lock only from nobody, so not while the SBC's worker connects.
LEMMA SoundTakeFdsetLock == ASSUME Sound, TakeFdsetLock PROVE Sound'
<1> USE DEF netVars, setVars, tableVars, mainVars, workVars, tutVars, TakeFdsetLock, Sound
<1>1. TypeOK'
  BY DEF TypeOK
<1>2. MutexesHeld'
  BY Numbers DEF MutexesHeld
<1>3. SelectsOpenSockets' /\ LocksMatch' /\ MainSetOpen'
  BY DEF SelectsOpenSockets, LocksMatch, MainSetOpen, Open, Closed
<1>4. AtHand'
  BY DEF AtHand, Receiving
<1>5. QED
  BY <1>1, <1>2, <1>3, <1>4

\* The set for select is copied under both mutexes and holds open sockets only.
LEMMA SoundTakeSocketLock == ASSUME Sound, TakeSocketLock PROVE Sound'
<1> USE DEF netVars, setVars, tableVars, mainVars, workVars, tutVars, TakeSocketLock, Sound
<1>1. TypeOK'
  BY DEF TypeOK
<1>2. MutexesHeld'
  BY Numbers DEF MutexesHeld
<1>3. SelectsOpenSockets' /\ LocksMatch' /\ MainSetOpen'
  BY DEF SelectsOpenSockets, LocksMatch, MainSetOpen, Open, Closed
<1>4. AtHand'
  BY DEF AtHand, Receiving
<1>5. QED
  BY <1>1, <1>2, <1>3, <1>4

\* Main gives main_fdset_lock back and keeps socket_lock.
LEMMA SoundSelect == ASSUME Sound, Select PROVE Sound'
<1> USE DEF netVars, setVars, tableVars, mainVars, workVars, tutVars, Select, Sound
<1>1. TypeOK'
  BY DEF TypeOK
<1>2. MutexesHeld'
  BY Numbers DEF MutexesHeld, TypeOK
<1>3. SelectsOpenSockets' /\ LocksMatch' /\ MainSetOpen'
  BY DEF SelectsOpenSockets, LocksMatch, MainSetOpen, Open, Closed
<1>4. AtHand'
  BY DEF AtHand, Receiving
<1>5. QED
  BY <1>1, <1>2, <1>3, <1>4

\* The end of a pass: socket_lock goes back with nothing at hand.
LEMMA SoundEndOfPass == ASSUME Sound, EndOfPass PROVE Sound'
<1> USE DEF netVars, setVars, tableVars, mainVars, workVars, tutVars, EndOfPass, Sound
<1>1. TypeOK'
  BY DEF TypeOK
<1>2. MutexesHeld'
  BY DEF MutexesHeld
<1>3. SelectsOpenSockets' /\ LocksMatch' /\ MainSetOpen'
  BY DEF SelectsOpenSockets, LocksMatch, MainSetOpen, Open, Closed
<1>4. AtHand'
  BY DEF AtHand, Receiving
<1>5. QED
  BY <1>1, <1>2, <1>3, <1>4

\* Main picks a socket and a handler.
LEMMA SoundReadSocket == ASSUME Sound, ReadSocket PROVE Sound'
<1> USE DEF Sound
<1> DEFINE f == Lowest(readable)
<1>1. /\ mpc = "loop"
      /\ readable' = readable \ {f}
      /\ mpc' = Handler(f)
      /\ cur' = IF Handler(f) = "loop" THEN NoFd ELSE f
      /\ IF Handler(f) = "recv xl3" THEN crate' \in CrateOf(f) ELSE crate' = -1
      /\ overheard' = (overheard \/ (Handler(f) = "recv xl3" /\ lock[crate'] = 1))
      /\ UNCHANGED <<netVars, setVars, tableVars, lock, mutexes, temp, workVars, reading_from_tut>>
      /\ f \in Listeners \cup Fds
  <2>1. readable # {} /\ readable \subseteq Listeners \cup Fds
    BY DEF ReadSocket, TypeOK
  <2>2. f \in Listeners \cup Fds
    BY <2>1, LowestIsMember
  <2> HIDE DEF Sound
  <2>3. QED
    BY <2>2, Zenon DEF ReadSocket
<1> HIDE DEF f
<1>2. /\ Handler(f) \in {"accept", "loop"} \cup Receiving
      /\ Handler(f) = "accept" => f \in Listeners
      /\ Handler(f) \in Receiving => f \in Fds
      /\ Handler(f) = "recv viewer" => f \in view_fdset
  <2>1. f \notin Listeners => f \in Fds
    BY <1>1
  <2>2. QED
    BY <2>1 DEF Handler, Receiving
<1>3. CrateOf(f) \subseteq Crates
  BY DEF CrateOf
<1>4. overheard' \in BOOLEAN
  BY <1>1 DEF TypeOK
<1>5. TypeOK'
  BY <1>1, <1>2, <1>3, <1>4
  DEF TypeOK, netVars, setVars, tableVars, mutexes, workVars, Receiving
<1>6. SelectsOpenSockets' /\ MutexesHeld' /\ LocksMatch' /\ MainSetOpen'
  BY <1>1, <1>2 DEF SelectsOpenSockets, MutexesHeld, LocksMatch, MainSetOpen, Open, Closed,
                    netVars, setVars, mutexes, workVars, Receiving
<1>7. AtHand'
  BY <1>1, <1>2, <1>3 DEF AtHand, Receiving, setVars, tableVars
<1>8. QED
  BY <1>5, <1>6, <1>7

\* An early return of accept_connection leaves with the mutex.
LEMMA SoundRefuseConnection == ASSUME Sound, RefuseConnection PROVE Sound'
<1> USE DEF setVars, tableVars, workVars, tutVars, NextSocket, RefuseConnection, Sound
<1>1. TypeOK'
  BY DEF TypeOK
<1>2. MutexesHeld'
  BY Numbers DEF MutexesHeld
<1>3. SelectsOpenSockets' /\ LocksMatch' /\ MainSetOpen'
  BY DEF SelectsOpenSockets, LocksMatch, MainSetOpen, Open, Closed
<1>4. AtHand'
  BY DEF AtHand, Receiving
<1>5. QED
  BY <1>1, <1>2, <1>3, <1>4

\* A new connection has a closed descriptor, and an old one of the same XL3 is closed.
LEMMA SoundAcceptConnection == ASSUME Sound, AcceptConnection PROVE Sound'
<1> USE DEF Sound
<1>1. PICK f \in Closed :
        \/ AcceptController(f)
        \/ AcceptViewer(f)
        \/ \E c \in Crates : AcceptXl3(c, f)
  BY DEF AcceptConnection
<1>2. /\ mpc = "accept" /\ mpc' = "loop" /\ cur' = NoFd /\ crate' = -1
      /\ waiting' \subseteq waiting
      /\ UNCHANGED <<lock, main_fdset_lock, socket_lock, temp, readable, wpc, wyield,
                     reading_from_tut, overheard>>
  BY DEF AcceptConnection, NextSocket, mutexes, workVars, tutVars
<1>3. f \in Fds /\ sock[f] = "closed"
  BY DEF Closed
<1>4. SelectsOpenSockets' /\ MutexesHeld' /\ LocksMatch'
  BY <1>2 DEF SelectsOpenSockets, MutexesHeld, LocksMatch
<1>5. CASE AcceptController(f)
  <2> USE DEF AcceptController
  <2>1. TypeOK'
    BY <1>2, <1>3, <1>5 DEF TypeOK
  <2>2. MainSetOpen'
    BY <1>3, <1>5 DEF MainSetOpen, Open, Closed, TypeOK
  <2>3. AtHand'
    BY <1>2, <1>5 DEF AtHand, Receiving
  <2>4. QED
    BY <1>4, <2>1, <2>2, <2>3
<1>6. CASE AcceptViewer(f)
  <2> USE DEF AcceptViewer
  <2>1. rw_view_fd' \in [Views -> Fds \cup {NoFd}]
    BY <1>3, <1>6 DEF TypeOK
  <2>2. views_connected' \in 0 .. MAX_VIEW_CON
    <3>1. views_connected \in 0 .. MAX_VIEW_CON
      BY DEF TypeOK
    <3>2. QED
      BY <1>6, <3>1, MainLoopConstantsOK
  <2>3. TypeOK'
    BY <1>2, <1>3, <1>6, <2>1, <2>2 DEF TypeOK
  <2>4. MainSetOpen'
    BY <1>3, <1>6 DEF MainSetOpen, Open, Closed, TypeOK
  <2>5. views_connected' >= Cardinality(view_fdset')
    <3>1. /\ views_connected \in 0 .. MAX_VIEW_CON /\ view_fdset \in SUBSET Fds
          /\ views_connected >= Cardinality(view_fdset)
      <4>1. views_connected \in 0 .. MAX_VIEW_CON /\ view_fdset \in SUBSET Fds
        BY DEF TypeOK
      <4>2. mpc # "forget viewer"
        BY <1>2
      <4>3. views_connected >= Cardinality(view_fdset) + 0
        BY <4>2 DEF AtHand
      <4> HIDE DEF Sound, AcceptViewer
      <4>4. QED
        <5>1. Cardinality(view_fdset) \in Nat
          BY <4>1, FiniteFds, FS_CardinalityType
        <5>2. QED
          BY <4>1, <4>3, <5>1, MainLoopConstantsOK
    <3>2. views_connected' = views_connected + 1 /\ view_fdset' = view_fdset \cup {f}
      BY <1>6
    <3> HIDE DEF Sound, AcceptViewer
    <3>3. /\ Cardinality(view_fdset) \in Nat
          /\ Cardinality(view_fdset') \in {Cardinality(view_fdset), Cardinality(view_fdset) + 1}
      BY <1>3, <3>1, <3>2, SizeOfSet
    <3>4. \A n \in Nat, m \in 0 .. MAX_VIEW_CON : m >= n => m + 1 >= n /\ m + 1 >= n + 1
      BY MainLoopConstantsOK
    <3>5. QED
      BY <3>1, <3>2, <3>3, <3>4
  <2>6. AtHand'
    <3> HIDE DEF AcceptViewer, Sound
    <3>1. Cardinality(view_fdset') + 0 = Cardinality(view_fdset')
      <4>1. view_fdset' \in SUBSET Fds
        BY <2>3 DEF TypeOK
      <4>2. Cardinality(view_fdset') \in Nat
        BY <4>1, FiniteFds, FS_CardinalityType
      <4>3. QED
        BY <4>2
    <3>2. QED
      BY <1>2, <2>5, <3>1 DEF AtHand, Receiving
  <2>7. QED
    BY <1>4, <2>3, <2>4, <2>6
<1>7. ASSUME NEW c \in Crates, AcceptXl3(c, f) PROVE Sound'
  <2> USE DEF AcceptXl3
  <2>1. TypeOK'
    BY <1>2, <1>3, <1>7 DEF TypeOK
  <2>2. MainSetOpen'
    BY <1>3, <1>7 DEF MainSetOpen, Open, Closed, TypeOK
  <2>3. AtHand'
    BY <1>2, <1>7 DEF AtHand, Receiving
  <2>4. QED
    BY <1>4, <2>1, <2>2, <2>3
<1>8. QED
  BY <1>1, <1>5, <1>6, <1>7

\* What main receives may start a worker.
LEMMA SoundReceive == ASSUME Sound, Receive PROVE Sound'
<1> USE DEF Sound
<1>1. /\ mpc \in Receiving /\ mpc' = "loop" /\ cur' = NoFd /\ crate' = -1
      /\ sock' = [sock EXCEPT ![cur] = "quiet"]
      /\ sock[cur] = "data"
      /\ UNCHANGED <<waiting, setVars, tableVars, mutexes, temp, readable, tutVars>>
  BY DEF Receive, NextSocket
<1>2. UNCHANGED <<lock, workVars>> \/ \E w \in Workers : StartWorker(w)
  BY DEF Receive
<1> DEFINE WorkersOK == /\ LocksMatch'
                        /\ lock' \in [Workers -> {0, 1, 2}]
                        /\ wpc' \in [Workers -> WorkerStates]
                        /\ wyield' \in [Workers -> 0 .. MaxYields]
                        /\ wpc'[Sbc] = "connect" => wpc[Sbc] = "connect"
<1>3. WorkersOK
  <2>1. CASE UNCHANGED <<lock, workVars>>
    BY <2>1 DEF workVars, LocksMatch, TypeOK, WorkerStates
  <2>2. ASSUME NEW w \in Workers, StartWorker(w) PROVE WorkersOK
    <3>1. PICK p \in WorkerStates :
            /\ wpc' = [wpc EXCEPT ![w] = p]
            /\ lock' = [lock EXCEPT ![w] = 1]
            /\ p = "run" \/ (p = "control" /\ w = Sbc)
      BY <2>2 DEF StartWorker, WorkerStates
    <3>2. 0 \in 0 .. MaxYields /\ MaxYields \in 0 .. MaxYields
      BY MainLoopConstantsOK
    <3>3. wyield' \in [Workers -> 0 .. MaxYields]
      BY <2>2, <3>2 DEF StartWorker, TypeOK
    <3>4. /\ p \in WorkerStates /\ 1 \in {0, 1, 2}
          /\ (1 = 0 <=> p = "none") /\ (1 = 2 <=> p \in {"yield", "want relock"})
          /\ w # Sbc => p \notin {"control", "connect", "over"}
          /\ p # "connect"
      <4>1. CASE p = "run"
        BY <4>1 DEF WorkerStates
      <4>2. CASE p = "control" /\ w = Sbc
        BY <4>2 DEF WorkerStates
      <4>3. QED
        BY <3>1, <4>1, <4>2
    <3>5. /\ LocksMatch'
          /\ lock' \in [Workers -> {0, 1, 2}]
          /\ wpc' \in [Workers -> WorkerStates]
          /\ \A u \in Workers : wpc'[u] = IF u = w THEN p ELSE wpc[u]
      <4> HIDE DEF Sound
      <4>1. QED
        BY <3>1, <3>4, WorkerMoves
    <3>6. QED
      BY <3>3, <3>4, <3>5, Numbers
  <2>3. QED
    BY <1>2, <2>1, <2>2
<1>4. TypeOK'
  BY <1>1, <1>3 DEF TypeOK, setVars, tableVars, mutexes, tutVars, WorkerStates
<1>5. SelectsOpenSockets' /\ MutexesHeld'
  BY <1>1, <1>3 DEF SelectsOpenSockets, MutexesHeld, mutexes, Receiving
<1>6. MainSetOpen'
  BY <1>1 DEF MainSetOpen, Open, Closed, setVars, TypeOK
<1>7. AtHand'
  BY <1>1 DEF AtHand, setVars, tableVars, Receiving
<1>8. QED
  BY <1>3, <1>4, <1>5, <1>6, <1>7

\* A broken connection leaves main_fdset with its socket, under the mutex.
LEMMA SoundCloseConnection == ASSUME Sound, CloseConnection PROVE Sound'
<1>1. /\ mpc \in Receiving /\ cur \in Fds
      /\ view_fdset \in SUBSET Fds /\ views_connected \in 0 .. MAX_VIEW_CON
      /\ views_connected >= Cardinality(view_fdset)
  <2>1. mpc \in Receiving
    BY DEF CloseConnection
  <2>2. mpc # "forget viewer"
    BY <2>1 DEF Receiving
  <2>3. view_fdset \in SUBSET Fds
    BY DEF Sound, TypeOK
  <2>4. Cardinality(view_fdset) \in Nat
    BY <2>3, FiniteFds, FS_CardinalityType
  <2>5. views_connected >= Cardinality(view_fdset) + 0
    BY <2>2 DEF Sound, AtHand
  <2>6. cur \in Fds /\ views_connected \in 0 .. MAX_VIEW_CON
    BY <2>1 DEF Sound, AtHand, TypeOK
  <2>7. QED
    BY <2>1, <2>3, <2>4, <2>5, <2>6
<1> USE DEF tableVars, mutexes, workVars, tutVars, CloseConnection, Sound
<1>2. TypeOK'
  BY <1>1 DEF TypeOK, ForgetAs, Receiving
<1>3. SelectsOpenSockets' /\ MutexesHeld' /\ LocksMatch'
  BY <1>1 DEF SelectsOpenSockets, MutexesHeld, LocksMatch, ForgetAs, Receiving
<1>4. MainSetOpen'
  BY <1>1 DEF MainSetOpen, Open, Closed, TypeOK
<1>5. views_connected' >= Cardinality(view_fdset') + (IF mpc' = "forget viewer" THEN 1 ELSE 0)
  <2>1. CASE mpc = "recv viewer"
    <3>1. /\ cur \in view_fdset /\ view_fdset' = view_fdset \ {cur}
          /\ mpc' = "forget viewer" /\ views_connected' = views_connected
      BY <2>1 DEF AtHand, ForgetAs
    <3> HIDE DEF CloseConnection, Sound
    <3>2. /\ Cardinality(view_fdset) \in Nat
          /\ Cardinality(view_fdset') = Cardinality(view_fdset) - 1
      BY <1>1, <3>1, SizeOfSet
    <3>3. \A n \in Nat, m \in 0 .. MAX_VIEW_CON : m >= n => m >= n - 1 + 1
      BY MainLoopConstantsOK
    <3>4. QED
      BY <1>1, <3>1, <3>2, <3>3
  <2>2. CASE mpc # "recv viewer"
    <3>1. /\ view_fdset' = view_fdset /\ mpc' # "forget viewer"
          /\ views_connected' = views_connected
      BY <1>1, <2>2 DEF ForgetAs, Receiving
    <3> HIDE DEF CloseConnection, Sound
    <3>2. Cardinality(view_fdset) \in Nat
      BY <1>1, FiniteFds, FS_CardinalityType
    <3>3. views_connected' >= Cardinality(view_fdset') + 0
      <4>1. \A n \in Nat, m \in 0 .. MAX_VIEW_CON : m >= n => m >= n + 0
        BY MainLoopConstantsOK
      <4>2. QED
        BY <1>1, <3>1, <3>2, <4>1
    <3>4. QED
      BY <3>1, <3>3
  <2>3. QED
    BY <2>1, <2>2
<1>6. AtHand'
  BY <1>1, <1>5 DEF AtHand, ForgetAs, Receiving
<1>7. QED
  BY <1>2, <1>3, <1>4, <1>6

\* The closed connection's number leaves its table, a viewer the count.
LEMMA SoundForget == ASSUME Sound, Forget PROVE Sound'
<1> USE DEF netVars, setVars, mutexes, workVars, tutVars, Sound
<1>1. /\ mpc' = "loop" /\ cur' = NoFd /\ crate' = -1
      /\ UNCHANGED <<netVars, setVars, rw_sbc_fd, lock, mutexes, temp, readable, workVars,
                     tutVars>>
      /\ ForgetXl3 \/ ForgetController \/ ForgetViewer
  BY DEF Forget, NextSocket
<1>2. mpc \in {"forget xl3", "forget controller", "forget viewer"}
  BY <1>1 DEF ForgetXl3, ForgetController, ForgetViewer
<1>3. /\ SelectsOpenSockets' /\ MutexesHeld' /\ LocksMatch' /\ MainSetOpen'
  BY <1>1, <1>2 DEF SelectsOpenSockets, MutexesHeld, LocksMatch, MainSetOpen, Open, Closed
<1>4. CASE ForgetXl3 \/ ForgetController
  <2>1. TypeOK'
    <3>1. rw_xl3_fd' \in [Crates -> Fds \cup {NoFd}]
      BY <1>4 DEF TypeOK, ForgetXl3, ForgetController
    <3>2. rw_cont_fd' \in Fds \cup {NoFd}
      BY <1>4 DEF TypeOK, ForgetXl3, ForgetController
    <3>3. UNCHANGED <<rw_view_fd, views_connected>>
      BY <1>4 DEF ForgetXl3, ForgetController
    <3>4. QED
      BY <1>1, <3>1, <3>2, <3>3 DEF TypeOK
  <2>2. AtHand'
    BY <1>1, <1>4 DEF AtHand, Receiving, ForgetXl3, ForgetController
  <2>3. QED
    BY <1>3, <2>1, <2>2
<1>5. CASE ForgetViewer
  <2>1. /\ views_connected' = views_connected - 1 /\ view_fdset' = view_fdset
        /\ view_fdset \in SUBSET Fds /\ views_connected \in 0 .. MAX_VIEW_CON
        /\ views_connected >= Cardinality(view_fdset) + 1
    <3>1. views_connected' = views_connected - 1 /\ mpc = "forget viewer"
      BY <1>5 DEF ForgetViewer
    <3>2. views_connected >= Cardinality(view_fdset) + 1
      BY <3>1 DEF AtHand
    <3>3. view_fdset \in SUBSET Fds /\ views_connected \in 0 .. MAX_VIEW_CON
      BY DEF TypeOK
    <3>4. QED
      BY <1>1, <3>1, <3>2, <3>3
  <2>2. /\ views_connected' \in 0 .. MAX_VIEW_CON
        /\ views_connected' >= Cardinality(view_fdset')
        /\ Cardinality(view_fdset') + 0 = Cardinality(view_fdset')
    <3> HIDE DEF Sound
    <3>1. Cardinality(view_fdset) \in Nat
      BY <2>1, FiniteFds, FS_CardinalityType
    <3>2. \A n \in Nat, m \in 0 .. MAX_VIEW_CON :
            m >= n + 1 => m - 1 \in 0 .. MAX_VIEW_CON /\ m - 1 >= n /\ n + 0 = n
      BY MainLoopConstantsOK
    <3>3. QED
      BY <2>1, <3>1, <3>2
  <2>3. rw_view_fd' \in [Views -> Fds \cup {NoFd}]
    BY <1>5 DEF TypeOK, ForgetViewer
  <2>4. TypeOK'
    BY <1>1, <1>5, <2>2, <2>3 DEF TypeOK, ForgetViewer
  <2>5. AtHand'
    BY <1>1, <2>2 DEF AtHand, Receiving
  <2>6. QED
    BY <1>3, <2>4, <2>5
<1>6. QED
  BY <1>1, <1>4, <1>5

\* A worker closes the connection of its device, which leaves main_fdset with it.
LEMMA SoundWorkerCloses ==
  ASSUME Sound, NEW w \in Workers, WorkerCloses(w) PROVE Sound'
<1> USE DEF mutexes, mainVars, tutVars, WorkerCloses, SetPc, Sound
<1>1. wpc[w] = "close" /\ lock[w] = 1
  BY DEF LocksMatch, TypeOK
<1>2. /\ LocksMatch'
      /\ wpc' \in [Workers -> WorkerStates]
      /\ wpc'[Sbc] = "connect" => wpc[Sbc] = "connect"
  <2>1. wpc' = [wpc EXCEPT ![w] = "run"] /\ lock' = [lock EXCEPT ![w] = 1]
    BY <1>1 DEF TypeOK
  <2>2. /\ "run" \in WorkerStates /\ 1 \in {0, 1, 2}
        /\ (1 = 0 <=> "run" = "none") /\ (1 = 2 <=> "run" \in {"yield", "want relock"})
        /\ "run" \notin {"control", "connect", "over"}
    BY DEF WorkerStates
  <2>3. /\ LocksMatch'
        /\ wpc' \in [Workers -> WorkerStates]
        /\ \A u \in Workers : wpc'[u] = IF u = w THEN "run" ELSE wpc[u]
    <3> HIDE DEF Sound
    <3>1. QED
      BY <2>1, <2>2, WorkerMoves
  <2>4. QED
    BY <2>3, Numbers
<1>3. TypeOK'
  BY <1>2 DEF TypeOK, WorkerStates
<1>4. SelectsOpenSockets' /\ MutexesHeld'
  BY <1>2, Numbers DEF SelectsOpenSockets, MutexesHeld
<1>5. MainSetOpen'
  BY DEF MainSetOpen, Open, Closed, TypeOK
<1>6. AtHand'
  BY DEF AtHand
<1>7. QED
  BY <1>2, <1>3, <1>4, <1>5, <1>6

\* A worker's step that moves only its own pc and lock word keeps Sound.
LEMMA SoundWorkerFrame ==
  ASSUME Sound, NEW w \in Workers, NEW p \in WorkerStates, NEW v \in {0, 1, 2},
         wpc' = [wpc EXCEPT ![w] = p], lock' = [lock EXCEPT ![w] = v],
         wyield' \in [Workers -> 0 .. MaxYields],
         v = 0 <=> p = "none",
         v = 2 <=> p \in {"yield", "want relock"},
         p \notin {"control", "connect", "over"},
         UNCHANGED <<netVars, setVars, tableVars, mutexes, mainVars, tutVars>>
  PROVE  Sound'
<1>1. /\ LocksMatch'
      /\ lock' \in [Workers -> {0, 1, 2}]
      /\ wpc' \in [Workers -> WorkerStates]
      /\ \A u \in Workers : wpc'[u] = IF u = w THEN p ELSE wpc[u]
      /\ \A u \in Workers : lock'[u] = IF u = w THEN v ELSE lock[u]
  BY WorkerMoves
<1> USE DEF netVars, setVars, tableVars, mutexes, mainVars, tutVars, Sound
<1>2. TypeOK'
  BY <1>1 DEF TypeOK, WorkerStates
<1>3. SelectsOpenSockets' /\ MainSetOpen' /\ AtHand'
  BY DEF SelectsOpenSockets, MainSetOpen, AtHand, Open, Closed
<1>4. MutexesHeld'
  BY <1>1, Numbers DEF MutexesHeld
<1>5. QED
  BY <1>1, <1>2, <1>3, <1>4

\* A worker's recv fails.
LEMMA SoundGetError ==
  ASSUME Sound, NEW w \in Workers, GetError(w) PROVE Sound'
<1>1. /\ wpc' = [wpc EXCEPT ![w] = "close"] /\ lock' = [lock EXCEPT ![w] = 1]
      /\ lock[w] = 1 /\ wyield' \in [Workers -> 0 .. MaxYields]
      /\ UNCHANGED <<netVars, setVars, tableVars, mutexes, mainVars, tutVars>>
  BY DEF GetError, SetPc, Sound, LocksMatch, TypeOK
<1>2. /\ "close" \in WorkerStates /\ 1 \in {0, 1, 2}
      /\ (1 = 0 <=> "close" = "none") /\ (1 = 2 <=> "close" \in {"yield", "want relock"})
      /\ "close" \notin {"control", "connect", "over"}
  BY DEF WorkerStates
<1>3. QED
  BY <1>1, <1>2, SoundWorkerFrame

\* A worker is about to yield its device, or to take it back.
LEMMA SoundWantSocketLock ==
  ASSUME Sound, NEW w \in Workers, WantSocketLock(w) PROVE Sound'
<1>1. UNCHANGED <<netVars, setVars, tableVars, mutexes, mainVars, tutVars>>
  BY DEF WantSocketLock
<1>2. CASE wpc[w] = "run" /\ wyield[w] > 0 /\ SetPc(w, "want yield")
           /\ wyield' = [wyield EXCEPT ![w] = @ - 1]
  <2>5. lock[w] = 1 /\ lock \in [Workers -> {0, 1, 2}]
    BY <1>2 DEF Sound, LocksMatch, TypeOK
  <2>1. /\ wpc' = [wpc EXCEPT ![w] = "want yield"] /\ lock' = [lock EXCEPT ![w] = 1]
        /\ lock[w] = 1
    BY <1>2, <2>5 DEF WantSocketLock, SetPc
  <2>2. wyield' \in [Workers -> 0 .. MaxYields]
    <3>1. wyield \in [Workers -> 0 .. MaxYields]
      BY DEF Sound, TypeOK
    <3>2. wyield[w] - 1 \in 0 .. MaxYields
      <4>1. wyield[w] \in 0 .. MaxYields /\ wyield[w] > 0
        BY <1>2, <3>1
      <4>2. \A n \in 0 .. MaxYields : n > 0 => n - 1 \in 0 .. MaxYields
        BY MainLoopConstantsOK
      <4>3. QED
        BY <4>1, <4>2
    <3>3. wyield' = [wyield EXCEPT ![w] = wyield[w] - 1]
      BY <1>2
    <3>4. QED
      BY <3>1, <3>2, <3>3
  <2>3. /\ "want yield" \in WorkerStates /\ 1 \in {0, 1, 2}
        /\ (1 = 0 <=> "want yield" = "none")
        /\ (1 = 2 <=> "want yield" \in {"yield", "want relock"})
        /\ "want yield" \notin {"control", "connect", "over"}
    BY DEF WorkerStates
  <2>4. QED
    BY <1>1, <2>1, <2>2, <2>3, SoundWorkerFrame
<1>3. CASE wpc[w] = "yield" /\ SetPc(w, "want relock") /\ UNCHANGED wyield
  <2>1. /\ wpc' = [wpc EXCEPT ![w] = "want relock"] /\ lock' = [lock EXCEPT ![w] = 2]
        /\ wyield' \in [Workers -> 0 .. MaxYields]
    BY <1>3 DEF WantSocketLock, SetPc, Sound, LocksMatch, TypeOK
  <2>2. /\ "want relock" \in WorkerStates /\ 2 \in {0, 1, 2}
        /\ (2 = 0 <=> "want relock" = "none")
        /\ (2 = 2 <=> "want relock" \in {"yield", "want relock"})
        /\ "want relock" \notin {"control", "connect", "over"}
    BY DEF WorkerStates
  <2>3. QED
    BY <1>1, <2>1, <2>2, SoundWorkerFrame
<1>4. QED
  BY <1>2, <1>3 DEF WantSocketLock

\* temp_unlock marks the device, which main may then read.
LEMMA SoundTempUnlock ==
  ASSUME Sound, NEW w \in Workers, TempUnlock(w) PROVE Sound'
<1>1. /\ wpc' = [wpc EXCEPT ![w] = "yield"] /\ lock' = [lock EXCEPT ![w] = 2]
      /\ wyield' \in [Workers -> 0 .. MaxYields]
      /\ UNCHANGED <<netVars, setVars, tableVars, mutexes, mainVars, tutVars>>
  BY DEF TempUnlock, SetPc, Sound, TypeOK
<1>2. /\ "yield" \in WorkerStates /\ 2 \in {0, 1, 2}
      /\ (2 = 0 <=> "yield" = "none") /\ (2 = 2 <=> "yield" \in {"yield", "want relock"})
      /\ "yield" \notin {"control", "connect", "over"}
  BY DEF WorkerStates
<1>3. QED
  BY <1>1, <1>2, SoundWorkerFrame

\* relock waits for socket_lock, so that main is between two passes.
LEMMA SoundRelock ==
  ASSUME Sound, NEW w \in Workers, Relock(w) PROVE Sound'
<1>1. /\ wpc' = [wpc EXCEPT ![w] = "run"] /\ lock' = [lock EXCEPT ![w] = 1]
      /\ wyield' \in [Workers -> 0 .. MaxYields]
      /\ UNCHANGED <<netVars, setVars, tableVars, mutexes, mainVars, tutVars>>
  BY DEF Relock, SetPc, Sound, TypeOK
<1>2. /\ "run" \in WorkerStates /\ 1 \in {0, 1, 2}
      /\ (1 = 0 <=> "run" = "none") /\ (1 = 2 <=> "run" \in {"yield", "want relock"})
      /\ "run" \notin {"control", "connect", "over"}
  BY DEF WorkerStates
<1>3. QED
  BY <1>1, <1>2, SoundWorkerFrame

\* unthread_and_unlock frees the device.
LEMMA SoundFinish ==
  ASSUME Sound, NEW w \in Workers, Finish(w) PROVE Sound'
<1>1. /\ wpc' = [wpc EXCEPT ![w] = "none"] /\ lock' = [lock EXCEPT ![w] = 0]
      /\ wyield' \in [Workers -> 0 .. MaxYields]
      /\ UNCHANGED <<netVars, setVars, tableVars, mutexes, mainVars, tutVars>>
  BY DEF Finish, SetPc, Sound, TypeOK
<1>2. /\ "none" \in WorkerStates /\ 0 \in {0, 1, 2}
      /\ (0 = 0 <=> "none" = "none") /\ (0 = 2 <=> "none" \in {"yield", "want relock"})
      /\ "none" \notin {"control", "connect", "over"}
  BY DEF WorkerStates
<1>3. QED
  BY <1>1, <1>2, SoundWorkerFrame

\* The SBC's worker steps in "control" and "connect", which only it visits.
LEMMA ControlMoves ==
  ASSUME Sound, NEW p \in {"connect", "over"}, wpc[Sbc] \in {"control", "connect"},
         wpc' = [wpc EXCEPT ![Sbc] = p], lock' = lock
  PROVE  LocksMatch' /\ wpc' \in [Workers -> WorkerStates] /\ wpc'[Sbc] = p
<1>1. lock[Sbc] = 1
  BY Numbers DEF Sound, LocksMatch, TypeOK
<1>2. \A u \in Workers : wpc'[u] = IF u = Sbc THEN p ELSE wpc[u]
  BY DEF Sound, TypeOK
<1>3. wpc' \in [Workers -> WorkerStates]
  BY DEF Sound, TypeOK, WorkerStates
<1>4. LocksMatch'
  BY <1>1, <1>2 DEF Sound, LocksMatch
<1>5. QED
  BY <1>2, <1>3, <1>4, Numbers

\* sbc_control closes an old connection only while main does not select.
LEMMA SoundTakeControl == ASSUME Sound, TakeControl PROVE Sound'
<1> USE DEF Sound
<1>1. /\ main_fdset_lock = Nobody /\ main_fdset_lock' = Sbc
      /\ UNCHANGED <<waiting, xl3_fdset, cont_fdset, view_fdset, rw_cont_fd, rw_xl3_fd,
                     rw_view_fd, views_connected, lock, socket_lock, mpc, temp, readable,
                     cur, crate, wyield, tutVars>>
  BY DEF TakeControl, mainVars
<1>2. LocksMatch' /\ wpc' \in [Workers -> WorkerStates] /\ wpc'[Sbc] = "connect"
  <2> HIDE DEF Sound
  <2>1. QED
    BY ControlMoves DEF TakeControl, SetPc
<1>3. \/ UNCHANGED <<sock, main_fdset, rw_sbc_fd>>
      \/ /\ rw_sbc_fd # NoFd /\ rw_sbc_fd \in Fds
         /\ sock' = [sock EXCEPT ![rw_sbc_fd] = "closed"]
         /\ main_fdset' = main_fdset \ {rw_sbc_fd}
         /\ rw_sbc_fd' = NoFd
  <2>1. rw_sbc_fd > 0 => rw_sbc_fd # NoFd
    BY DEF NoFd
  <2>2. rw_sbc_fd \in Fds \cup {NoFd}
    BY DEF TypeOK
  <2>3. QED
    BY <2>1, <2>2 DEF TakeControl
<1>11. /\ sock' \in [Fds -> {"closed", "quiet", "data", "gone"}]
       /\ main_fdset' \subseteq Fds /\ rw_sbc_fd' \in Fds \cup {NoFd}
  <2>1. /\ sock \in [Fds -> {"closed", "quiet", "data", "gone"}]
        /\ main_fdset \subseteq Fds /\ rw_sbc_fd \in Fds \cup {NoFd}
    BY DEF TypeOK
  <2> HIDE DEF Sound
  <2>2. QED
    BY <1>3, <2>1
<1>4. TypeOK'
  BY <1>1, <1>2, <1>11 DEF TypeOK, WorkerStates, tutVars
<1>5. mpc \notin {"want socket", "select"}
  BY <1>1, Numbers DEF MutexesHeld
<1>6. SelectsOpenSockets' /\ MutexesHeld'
  BY <1>1, <1>2, <1>5 DEF SelectsOpenSockets, MutexesHeld
<1>7. MainSetOpen'
  BY <1>3, <1>11 DEF MainSetOpen, Open, Closed, TypeOK
<1>8. AtHand'
  BY <1>1 DEF AtHand
<1>9. QED
  BY <1>2, <1>4, <1>6, <1>7, <1>8

\* sbc_control puts its new connection into main_fdset and gives the mutex back.
LEMMA SoundEndControl == ASSUME Sound, EndControl PROVE Sound'
<1> USE DEF Sound
<1>1. /\ main_fdset_lock = Sbc /\ main_fdset_lock' = Nobody
      /\ UNCHANGED <<waiting, xl3_fdset, cont_fdset, view_fdset, rw_cont_fd, rw_xl3_fd,
                     rw_view_fd, views_connected, lock, socket_lock, mpc, temp, readable,
                     cur, crate, wyield, tutVars>>
  BY DEF EndControl, mainVars, MutexesHeld
<1>2. LocksMatch' /\ wpc' \in [Workers -> WorkerStates] /\ wpc'[Sbc] = "over"
  <2> HIDE DEF Sound
  <2>1. QED
    BY ControlMoves DEF EndControl, SetPc
<1>3. \/ UNCHANGED <<sock, main_fdset, rw_sbc_fd>>
      \/ /\ rw_sbc_fd = NoFd
         /\ \E f \in Closed :
              /\ sock' = [sock EXCEPT ![f] = "quiet"]
              /\ main_fdset' = main_fdset \cup {f}
              /\ rw_sbc_fd' = f
  BY DEF EndControl
<1>10. /\ sock' \in [Fds -> {"closed", "quiet", "data", "gone"}]
       /\ main_fdset' \subseteq Fds /\ rw_sbc_fd' \in Fds \cup {NoFd}
  <2>1. /\ sock \in [Fds -> {"closed", "quiet", "data", "gone"}]
        /\ main_fdset \subseteq Fds /\ rw_sbc_fd \in Fds \cup {NoFd}
    BY DEF TypeOK
  <2> HIDE DEF Sound
  <2>2. QED
    BY <1>3, <2>1 DEF Closed
<1>4. TypeOK'
  BY <1>1, <1>2, <1>10 DEF TypeOK, WorkerStates, tutVars
<1>5. mpc \notin {"want socket", "select"}
  BY <1>1, Numbers DEF MutexesHeld
<1>6. SelectsOpenSockets' /\ MutexesHeld'
  BY <1>1, <1>2, <1>5 DEF SelectsOpenSockets, MutexesHeld
<1>7. MainSetOpen'
  BY <1>3, <1>10 DEF MainSetOpen, Open, Closed, TypeOK
<1>8. AtHand'
  BY <1>1 DEF AtHand
<1>9. QED
  BY <1>2, <1>4, <1>6, <1>7, <1>8

-----------------------------------------------------------------------------
(* Apart is kept until main reads the socket of a locked crate              *)

\* Apart says nothing of sockets, mutexes and what workers do with their locks.
LEMMA ApartFrame ==
  ASSUME Apart, UNCHANGED <<setVars, tableVars, lock, mpc, cur, crate>> PROVE Apart'
BY DEF Apart, SetsSeparate, TablesInSets, CurAtHand, ViewersCounted, setVars, tableVars

\* Main goes on with no connection at hand.
LEMMA ApartPasses ==
  ASSUME Apart, UNCHANGED <<setVars, tableVars, lock>>,
         {mpc, mpc'} \subseteq {"top", "want socket", "select", "loop", "accept"}
  PROVE  Apart'
BY DEF Apart, SetsSeparate, TablesInSets, CurAtHand, ViewersCounted, setVars, tableVars

\* The steps of a pass around the sockets' handlers.
LEMMA ApartPass ==
  ASSUME Apart, TakeFdsetLock \/ TakeSocketLock \/ Select \/ EndOfPass \/ RefuseConnection
  PROVE  Apart'
<1>1. /\ UNCHANGED <<setVars, tableVars, lock>>
      /\ {mpc, mpc'} \subseteq {"top", "want socket", "select", "loop", "accept"}
  BY DEF TakeFdsetLock, TakeSocketLock, Select, EndOfPass, RefuseConnection, NextSocket
<1>2. QED
  BY <1>1, ApartPasses

\* Main picks a socket and its handler by the sets: the crate of an XL3 it reads is not
\* locked, or it overhears its worker.
LEMMA ApartReadSocket == ASSUME Sound, Apart, ~overheard', ReadSocket PROVE Apart'
<1> DEFINE f == Lowest(readable)
<1>1. /\ mpc = "loop"
      /\ mpc' = Handler(f)
      /\ cur' = IF Handler(f) = "loop" THEN NoFd ELSE f
      /\ IF Handler(f) = "recv xl3" THEN crate' \in CrateOf(f) ELSE crate' = -1
      /\ overheard' = (overheard \/ (Handler(f) = "recv xl3" /\ lock[crate'] = 1))
      /\ UNCHANGED <<setVars, tableVars, lock>>
  BY Zenon DEF ReadSocket
<1> HIDE DEF f
<1>2. Handler(f) \in {"accept", "loop"} \cup Receiving
  BY DEF Handler, Receiving
<1>3. SetsSeparate' /\ TablesInSets' /\ ViewersCounted'
  BY <1>1, <1>2
  DEF Apart, SetsSeparate, TablesInSets, ViewersCounted, setVars, tableVars, Receiving
<1>4. CurAtHand'
  <2>1. Handler(f) = "recv xl3" => f \in xl3_fdset
    BY DEF Handler
  <2>2. Handler(f) = "recv controller" => f \in cont_fdset
    BY DEF Handler
  <2>3. Handler(f) = "recv xl3" => rw_xl3_fd[crate'] = f /\ lock[crate'] # 1
    BY <1>1 DEF CrateOf
  <2>4. Handler(f) \in Receiving => cur' = f
    BY <1>1 DEF Receiving
  <2>5. QED
    BY <1>1, <1>2, <2>1, <2>2, <2>3, <2>4 DEF CurAtHand, setVars, tableVars, Receiving
<1>5. QED
  BY <1>3, <1>4 DEF Apart

\* A new connection has a fresh descriptor and goes into one set and one table.
LEMMA ApartAcceptConnection == ASSUME Sound, Apart, AcceptConnection PROVE Apart'
<1> USE DEF Apart
<1>1. PICK f \in Closed :
        \/ AcceptController(f)
        \/ AcceptViewer(f)
        \/ \E c \in Crates : AcceptXl3(c, f)
  BY DEF AcceptConnection
<1>2. mpc = "accept" /\ mpc' = "loop"
  BY DEF AcceptConnection, NextSocket
<1>3. /\ f \in Fds /\ f # NoFd
      /\ f \notin main_fdset \cup xl3_fdset \cup cont_fdset \cup view_fdset
  BY Numbers DEF Closed, SetsSeparate, Sound, MainSetOpen, Open
<1>4. CurAtHand'
  BY <1>2 DEF CurAtHand
<1>5. CASE AcceptController(f)
  <2> USE DEF AcceptController
  <2>1. SetsSeparate'
    BY <1>3, <1>5 DEF SetsSeparate
  <2>2. TablesInSets'
    BY <1>2, <1>3, <1>5 DEF TablesInSets
  <2>3. ViewersCounted'
    BY <1>2, <1>5 DEF ViewersCounted
  <2>4. QED
    BY <1>4, <2>1, <2>2, <2>3
<1>6. CASE AcceptViewer(f)
  <2> USE DEF AcceptViewer
  <2>1. SetsSeparate'
    BY <1>3, <1>6 DEF SetsSeparate
  <2>2. TablesInSets'
    BY <1>2, <1>3, <1>6 DEF TablesInSets
  <2>3. ViewersCounted'
    <3>1. view_fdset \in SUBSET Fds
      BY DEF Sound, TypeOK
    <3>2. views_connected = Cardinality(view_fdset) + 0
      BY <1>2 DEF ViewersCounted
    <3>3. /\ views_connected' = views_connected + 1 /\ view_fdset' = view_fdset \cup {f}
          /\ mpc' # "forget viewer" /\ f \notin view_fdset
      BY <1>2, <1>3, <1>6
    <3> HIDE DEF Apart, AcceptViewer
    <3>4. /\ Cardinality(view_fdset) \in Nat
          /\ Cardinality(view_fdset') = Cardinality(view_fdset) + 1
      BY <1>3, <3>1, <3>3, SizeOfSet
    <3>5. \A n \in Nat : (n + 0) + 1 = (n + 1) + 0
      OBVIOUS
    <3>6. views_connected' = Cardinality(view_fdset') + 0
      BY <3>2, <3>3, <3>4, <3>5
    <3>7. QED
      BY <3>3, <3>6 DEF ViewersCounted
  <2>4. QED
    BY <1>4, <2>1, <2>2, <2>3
<1>7. ASSUME NEW c \in Crates, AcceptXl3(c, f) PROVE Apart'
  <2> USE DEF AcceptXl3
  <2>1. rw_xl3_fd[c] \in xl3_fdset \cup {NoFd} /\ rw_xl3_fd[c] # f
    BY <1>2, <1>3, <1>7 DEF TablesInSets
  <2>2. \A d \in Crates : rw_xl3_fd'[d] = IF d = c THEN f ELSE rw_xl3_fd[d]
    BY <1>7 DEF Sound, TypeOK
  <2>3. rw_xl3_fd[c] \notin cont_fdset \cup view_fdset
    <3>1. NoFd \notin cont_fdset \cup view_fdset
      BY Numbers DEF Sound, TypeOK
    <3>2. QED
      BY <2>1, <3>1 DEF SetsSeparate
  <2>4. SetsSeparate'
    BY <1>3, <1>7, <2>3 DEF SetsSeparate
  <2>5. TablesInSets'
    BY <1>2, <1>3, <1>7, <2>1, <2>2 DEF TablesInSets
  <2>6. ViewersCounted'
    BY <1>2, <1>7 DEF ViewersCounted
  <2>7. QED
    BY <1>4, <2>4, <2>5, <2>6
<1>8. QED
  BY <1>1, <1>5, <1>6, <1>7

\* What main receives may start a worker, when nothing is at hand any more.
LEMMA ApartReceive == ASSUME Apart, Receive PROVE Apart'
<1>1. mpc \in Receiving /\ mpc' = "loop" /\ UNCHANGED <<setVars, tableVars>>
  BY DEF Receive, NextSocket
<1>2. QED
  BY <1>1 DEF Apart, SetsSeparate, TablesInSets, CurAtHand, ViewersCounted, setVars, tableVars,
              Receiving

\* A broken connection leaves all sets; its number stays in the table to be forgotten.
LEMMA ApartCloseConnection == ASSUME Sound, Apart, CloseConnection PROVE Apart'
<1> USE DEF Apart
<1>1. /\ mpc \in Receiving /\ mpc' = ForgetAs
      /\ main_fdset' = main_fdset \ {cur}
      /\ xl3_fdset'  = IF mpc = "recv xl3" THEN xl3_fdset \ {cur} ELSE xl3_fdset
      /\ cont_fdset' = IF mpc = "recv controller" THEN cont_fdset \ {cur} ELSE cont_fdset
      /\ view_fdset' = IF mpc = "recv viewer" THEN view_fdset \ {cur} ELSE view_fdset
      /\ UNCHANGED <<rw_cont_fd, rw_sbc_fd, rw_xl3_fd, views_connected, lock, cur, crate>>
  BY DEF CloseConnection, tableVars
<1>2. /\ mpc = "recv xl3" => cur \in xl3_fdset
      /\ mpc = "recv controller" => cur \in cont_fdset
      /\ mpc = "recv viewer" => cur \in view_fdset
      /\ cur \in Fds /\ cur # NoFd
  BY <1>1, Numbers DEF CurAtHand, Sound, AtHand
<1>3. \/ mpc = "recv xl3" /\ mpc' = "forget xl3"
      \/ mpc = "recv controller" /\ mpc' = "forget controller"
      \/ mpc = "recv viewer" /\ mpc' = "forget viewer"
  BY <1>1 DEF ForgetAs, Receiving
<1>4. /\ xl3_fdset' = xl3_fdset \ {cur}
      /\ cont_fdset' = cont_fdset \ {cur}
      /\ view_fdset' = view_fdset \ {cur}
  BY <1>1, <1>2, <1>3 DEF SetsSeparate
<1>5. SetsSeparate'
  BY <1>1, <1>4 DEF SetsSeparate
<1>6. TablesInSets'
  <2>1. \A c \in Crates :
          rw_xl3_fd'[c] \in xl3_fdset' \cup {NoFd} \/ (mpc' = "forget xl3" /\ rw_xl3_fd'[c] = cur')
    BY <1>1, <1>2, <1>3, <1>4 DEF TablesInSets, SetsSeparate
  <2>2. rw_cont_fd' \in cont_fdset' \cup {NoFd} \/ (mpc' = "forget controller" /\ rw_cont_fd' = cur')
    BY <1>1, <1>2, <1>3, <1>4 DEF TablesInSets, SetsSeparate
  <2>3. rw_sbc_fd' \in (main_fdset' \ (xl3_fdset' \cup cont_fdset' \cup view_fdset')) \cup {NoFd}
    BY <1>1, <1>2, <1>3, <1>4 DEF TablesInSets
  <2>4. QED
    BY <1>1, <2>1, <2>2, <2>3 DEF TablesInSets
<1>7. CurAtHand'
  BY <1>1, <1>2, <1>3, <1>4 DEF CurAtHand
<1>8. ViewersCounted'
  <2>1. view_fdset \in SUBSET Fds
    BY DEF Sound, TypeOK
  <2>2. views_connected = Cardinality(view_fdset) + 0
    BY <1>3 DEF ViewersCounted
  <2>3. CASE mpc = "recv viewer"
    <3>1. mpc' = "forget viewer" /\ cur \in view_fdset /\ views_connected' = views_connected
      BY <1>1, <1>2, <1>3, <2>3
    <3> HIDE DEF Apart
    <3>2. /\ Cardinality(view_fdset) \in Nat
          /\ Cardinality(view_fdset') = Cardinality(view_fdset) - 1
      BY <1>2, <1>4, <2>1, <3>1, SizeOfSet
    <3>3. \A n \in Nat : n + 0 = n - 1 + 1
      OBVIOUS
    <3>4. QED
      BY <2>2, <3>1, <3>2, <3>3 DEF ViewersCounted
  <2>4. CASE mpc # "recv viewer"
    BY <1>1, <1>3, <2>2, <2>4 DEF ViewersCounted
  <2>5. QED
    BY <2>3, <2>4
<1>9. QED
  BY <1>5, <1>6, <1>7, <1>8

\* The closed connection's number leaves its table.
LEMMA ApartForget == ASSUME Sound, Apart, Forget PROVE Apart'
<1> USE DEF Apart
<1>1. /\ mpc' = "loop" /\ UNCHANGED <<setVars, rw_sbc_fd, lock>>
      /\ ForgetXl3 \/ ForgetController \/ ForgetViewer
  BY DEF Forget, NextSocket
<1>2. mpc \in {"forget xl3", "forget controller", "forget viewer"}
  BY <1>1 DEF ForgetXl3, ForgetController, ForgetViewer
<1>3. SetsSeparate' /\ CurAtHand'
  BY <1>1, <1>2 DEF SetsSeparate, CurAtHand, setVars, Receiving
<1>4. CASE ForgetXl3
  <2>1. crate \in Crates /\ rw_xl3_fd[crate] = cur /\ cur \in Fds /\ cur # NoFd
    BY <1>4, Numbers DEF ForgetXl3, CurAtHand, Sound, AtHand
  <2>2. \A c \in Crates :
          rw_xl3_fd'[c] = IF c = crate THEN NoFd ELSE rw_xl3_fd[c]
    BY <1>4 DEF ForgetXl3, Sound, TypeOK
  <2>3. \A c \in Crates : c # crate => rw_xl3_fd[c] # cur
    BY <2>1 DEF TablesInSets
  <2>7. UNCHANGED <<xl3_fdset, cont_fdset, view_fdset, main_fdset, rw_sbc_fd, rw_cont_fd>>
    BY <1>1, <1>4 DEF ForgetXl3, setVars
  <2>8. \A c \in Crates : rw_xl3_fd'[c] \in xl3_fdset \cup {NoFd}
    BY <2>2, <2>3 DEF TablesInSets
  <2>9. mpc # "forget controller"
    BY <1>4 DEF ForgetXl3
  <2>4. TablesInSets'
    BY <2>2, <2>7, <2>8, <2>9 DEF TablesInSets
  <2>5. ViewersCounted'
    BY <1>1, <1>4 DEF ViewersCounted, ForgetXl3, setVars
  <2>6. QED
    BY <1>3, <2>4, <2>5
<1>5. CASE ForgetController
  <2>1. TablesInSets'
    BY <1>1, <1>5 DEF TablesInSets, ForgetController, setVars
  <2>2. ViewersCounted'
    BY <1>1, <1>5 DEF ViewersCounted, ForgetController, setVars
  <2>3. QED
    BY <1>3, <2>1, <2>2
<1>6. CASE ForgetViewer
  <2>1. TablesInSets'
    BY <1>1, <1>6 DEF TablesInSets, ForgetViewer, setVars
  <2>2. ViewersCounted'
    <3>1. /\ views_connected' = views_connected - 1 /\ view_fdset' = view_fdset
          /\ mpc = "forget viewer" /\ mpc' # "forget viewer"
      BY <1>1, <1>6 DEF ForgetViewer, setVars
    <3>2. views_connected = Cardinality(view_fdset) + 1
      BY <3>1 DEF ViewersCounted
    <3>3. Cardinality(view_fdset) \in Nat
      BY FiniteFds, FS_CardinalityType DEF Sound, TypeOK
    <3> HIDE DEF Apart
    <3>4. \A n \in Nat : (n + 1) - 1 = n + 0
      OBVIOUS
    <3>5. views_connected' = Cardinality(view_fdset') + 0
      BY <3>1, <3>2, <3>3, <3>4
    <3>6. QED
      BY <3>1, <3>5 DEF ViewersCounted
  <2>3. QED
    BY <1>3, <2>1, <2>2
<1>7. QED
  BY <1>1, <1>4, <1>5, <1>6

\* A worker closes its own connection: of a locked device, so not the one main has at hand.
LEMMA ApartWorkerCloses ==
  ASSUME Sound, Apart, NEW w \in Workers, WorkerCloses(w) PROVE Apart'
<1> USE DEF Apart
<1> DEFINE f == FdOf(w)
<1>1. lock[w] = 1
  BY DEF WorkerCloses, Sound, LocksMatch, TypeOK
<1>2. /\ main_fdset' = main_fdset \ {f}
      /\ xl3_fdset' = IF w = Sbc THEN xl3_fdset ELSE xl3_fdset \ {f}
      /\ cont_fdset' = cont_fdset /\ view_fdset' = view_fdset
      /\ rw_cont_fd' = rw_cont_fd
      /\ rw_sbc_fd' = IF w = Sbc THEN NoFd ELSE rw_sbc_fd
      /\ \A c \in Crates : rw_xl3_fd'[c] = IF c = w THEN NoFd ELSE rw_xl3_fd[c]
      /\ views_connected' = views_connected /\ lock' = lock
      /\ mpc' = mpc /\ cur' = cur /\ crate' = crate
  BY DEF WorkerCloses, mainVars
<1>3. NoFd \notin xl3_fdset \cup cont_fdset \cup view_fdset
  BY Numbers DEF Sound, TypeOK
<1>4. w # Sbc => w \in Crates /\ f = rw_xl3_fd[w]
  BY Numbers DEF FdOf
<1>5. mpc \in {"recv xl3", "forget xl3"} =>
        crate \in Crates /\ crate # w /\ rw_xl3_fd[crate] = cur /\ cur \in Fds /\ cur # NoFd
  BY <1>1, Numbers DEF CurAtHand, Sound, AtHand, Receiving
<1>6. w # Sbc => f \in xl3_fdset \cup {NoFd} /\ (mpc \in {"recv xl3", "forget xl3"} => f # cur)
  BY <1>4, <1>5 DEF TablesInSets
<1>7. w = Sbc => f \notin xl3_fdset \cup cont_fdset \cup view_fdset
  BY <1>3 DEF FdOf, TablesInSets
<1>8. f \notin cont_fdset \cup view_fdset
  BY <1>3, <1>6, <1>7 DEF SetsSeparate
<1> HIDE DEF f
<1>9. SetsSeparate'
  BY <1>2, <1>7, <1>8 DEF SetsSeparate
<1>10. TablesInSets'
  <2>1. \A c \in Crates :
          rw_xl3_fd'[c] \in xl3_fdset' \cup {NoFd} \/ (mpc' = "forget xl3" /\ rw_xl3_fd'[c] = cur')
    <3>1. CASE w = Sbc
      BY <1>2, <3>1, Numbers DEF TablesInSets
    <3>2. CASE w # Sbc
      <4> SUFFICES ASSUME NEW c \in Crates, c # w
                   PROVE  \/ rw_xl3_fd[c] \in (xl3_fdset \ {f}) \cup {NoFd}
                          \/ mpc = "forget xl3" /\ rw_xl3_fd[c] = cur
        BY <1>2, <3>2
      <4>1. rw_xl3_fd[c] # f \/ rw_xl3_fd[c] = NoFd
        BY <1>4, <3>2 DEF TablesInSets
      <4>2. QED
        BY <4>1 DEF TablesInSets
    <3>3. QED
      BY <3>1, <3>2
  <2>2. rw_cont_fd' \in cont_fdset' \cup {NoFd} \/ (mpc' = "forget controller" /\ rw_cont_fd' = cur')
    BY <1>2 DEF TablesInSets
  <2>3. rw_sbc_fd' \in (main_fdset' \ (xl3_fdset' \cup cont_fdset' \cup view_fdset')) \cup {NoFd}
    BY <1>2, <1>6 DEF TablesInSets
  <2>4. \A c, d \in Crates : rw_xl3_fd'[c] = rw_xl3_fd'[d] /\ c # d => rw_xl3_fd'[c] = NoFd
    BY <1>2 DEF TablesInSets
  <2>5. QED
    BY <2>1, <2>2, <2>3, <2>4 DEF TablesInSets
<1>11. CurAtHand'
  BY <1>2, <1>5, <1>6 DEF CurAtHand
<1>12. ViewersCounted'
  BY <1>2 DEF ViewersCounted
<1>13. QED
  BY <1>9, <1>10, <1>11, <1>12

\* A worker's step that moves its lock word keeps Apart if a device is not locked again
\* while main reads it: relock waits for socket_lock.
LEMMA ApartWorkerMoves ==
  ASSUME Sound, Apart, NEW w \in Workers,
         GetError(w) \/ WantSocketLock(w) \/ TempUnlock(w) \/ Relock(w) \/ Finish(w)
  PROVE  Apart'
<1>1. UNCHANGED <<setVars, tableVars, mpc, cur, crate>>
  BY DEF GetError, WantSocketLock, TempUnlock, Relock, Finish, mainVars
<1>2. ASSUME mpc \in {"recv xl3", "forget xl3"} PROVE lock'[crate] # 1
  <2>1. crate \in Crates /\ crate \in Workers /\ lock[crate] # 1
    BY <1>2, Numbers DEF Apart, CurAtHand, Sound, AtHand
  <2>2. socket_lock # Nobody
    BY <1>2, Numbers DEF Sound, MutexesHeld
  <2>3. lock' = lock \/ lock' = [lock EXCEPT ![w] = 2] \/ lock' = [lock EXCEPT ![w] = 0]
    BY <2>2 DEF GetError, WantSocketLock, TempUnlock, Relock, Finish
  <2>4. lock \in [Workers -> {0, 1, 2}]
    BY DEF Sound, TypeOK
  <2>5. lock'[crate] \in {lock[crate], 0, 2}
    BY <2>1, <2>3, <2>4
  <2>6. QED
    BY <2>1, <2>5
<1>3. QED
  BY <1>1, <1>2
  DEF Apart, SetsSeparate, TablesInSets, CurAtHand, ViewersCounted, setVars, tableVars

\* sbc_control closes the SBC's old connection, which is in main_fdset only.
LEMMA ApartTakeControl == ASSUME Apart, TakeControl PROVE Apart'
<1> USE DEF Apart
<1>1. UNCHANGED <<xl3_fdset, cont_fdset, view_fdset, rw_cont_fd, rw_xl3_fd, views_connected,
                  lock, mpc, cur, crate>>
  BY DEF TakeControl, mainVars
<1>2. \/ UNCHANGED <<main_fdset, rw_sbc_fd>>
      \/ main_fdset' = main_fdset \ {rw_sbc_fd} /\ rw_sbc_fd' = NoFd /\ rw_sbc_fd > 0
  BY DEF TakeControl
<1>3. rw_sbc_fd > 0 => rw_sbc_fd \notin xl3_fdset \cup cont_fdset \cup view_fdset
  <2>1. rw_sbc_fd > 0 => rw_sbc_fd # NoFd
    BY DEF NoFd
  <2>2. QED
    BY <2>1 DEF TablesInSets
<1>4. SetsSeparate'
  BY <1>1, <1>2, <1>3 DEF SetsSeparate
<1>5. TablesInSets'
  BY <1>1, <1>2 DEF TablesInSets
<1>6. CurAtHand' /\ ViewersCounted'
  BY <1>1 DEF CurAtHand, ViewersCounted
<1>7. QED
  BY <1>4, <1>5, <1>6

\* sbc_control's new connection has a fresh descriptor.
LEMMA ApartEndControl == ASSUME Sound, Apart, EndControl PROVE Apart'
<1> USE DEF Apart
<1>1. UNCHANGED <<xl3_fdset, cont_fdset, view_fdset, rw_cont_fd, rw_xl3_fd, views_connected,
                  lock, mpc, cur, crate>>
  BY DEF EndControl, mainVars
<1>2. \/ UNCHANGED <<main_fdset, rw_sbc_fd>>
      \/ \E f \in Closed : main_fdset' = main_fdset \cup {f} /\ rw_sbc_fd' = f
  BY DEF EndControl
<1>3. \A f \in Closed : f \notin xl3_fdset \cup cont_fdset \cup view_fdset
  BY DEF SetsSeparate, Sound, MainSetOpen, Open
<1>4. SetsSeparate' /\ TablesInSets'
  <2>1. CASE UNCHANGED <<main_fdset, rw_sbc_fd>>
    BY <1>1, <2>1 DEF SetsSeparate, TablesInSets
  <2>2. ASSUME NEW f \in Closed, main_fdset' = main_fdset \cup {f}, rw_sbc_fd' = f
        PROVE  SetsSeparate' /\ TablesInSets'
    BY <1>1, <1>3, <2>2 DEF SetsSeparate, TablesInSets
  <2>3. QED
    BY <1>2, <2>1, <2>2
<1>5. CurAtHand' /\ ViewersCounted'
  BY <1>1 DEF CurAtHand, ViewersCounted
<1>6. QED
  BY <1>4, <1>5

-----------------------------------------------------------------------------
(* The invariant                                                            *)

\* LoopInv holds when the daemon starts.
LEMMA InitLoopInv == Init => LoopInv
<1> SUFFICES ASSUME Init PROVE LoopInv
  OBVIOUS
<1> USE DEF Init
<1>1. TypeOK
  <2>1. 0 \in 0 .. MAX_VIEW_CON /\ 0 \in 0 .. MaxYields
    <3> HIDE DEF Init
    <3>1. QED
      BY MainLoopConstantsOK
  <2>2. wyield \in [Workers -> 0 .. MaxYields] /\ views_connected \in 0 .. MAX_VIEW_CON
    BY <2>1
  <2>3. QED
    BY <2>1, <2>2 DEF TypeOK
<1>2. SelectsOpenSockets /\ MutexesHeld /\ LocksMatch /\ MainSetOpen /\ SetsSeparate
  BY Numbers DEF SelectsOpenSockets, MutexesHeld, LocksMatch, MainSetOpen, SetsSeparate
<1>3. TablesInSets /\ CurAtHand
  BY DEF TablesInSets, CurAtHand
<1>4. Cardinality(view_fdset) = 0
  BY FS_EmptySet
<1>5. ViewersCounted /\ AtHand
  BY <1>4 DEF ViewersCounted, AtHand, Receiving
<1>6. QED
  BY <1>1, <1>2, <1>3, <1>5 DEF LoopInv, Sound, Apart

\* Every step keeps Sound.
LEMMA StepSound == ASSUME Sound, [Next]_vars PROVE Sound'
<1>1. CASE UNCHANGED vars
  <2>1. TypeOK' /\ Closed' = Closed
    BY <1>1 DEF Sound, TypeOK, Closed, vars, netVars, setVars, tableVars, mutexes, mainVars,
                workVars, tutVars
  <2>2. QED
    BY <1>1, <2>1, SoundFrame DEF vars, setVars, tableVars, mainVars, workVars
<1>2. ASSUME NEW l \in Listeners, ClientConnects(l) PROVE Sound'
  BY <1>2, SoundClientConnects
<1>3. ASSUME NEW f \in Fds, Sends(f) \/ HangsUp(f) PROVE Sound'
  BY <1>3, SoundTraffic, Numbers
<1>4. CASE Prompt
  BY <1>4, SoundPrompt
<1>5. CASE MainStep
  BY <1>5, SoundTakeFdsetLock, SoundTakeSocketLock, SoundSelect, SoundEndOfPass,
     SoundReadSocket, SoundRefuseConnection, SoundAcceptConnection, SoundReceive,
     SoundCloseConnection, SoundForget
  DEF MainStep
<1>6. ASSUME NEW w \in Workers, WorkerStep(w) PROVE Sound'
  <2>1. CASE GetAnswer(w)
    <3>1. \E f \in Fds : TRUE
      BY MainLoopConstantsOK DEF Fds
    <3>2. QED
      BY <2>1, <3>1, SoundTraffic
  <2>2. QED
    BY <1>6, <2>1, SoundGetError, SoundWorkerCloses, SoundWantSocketLock, SoundTempUnlock,
       SoundRelock, SoundTakeControl, SoundEndControl, SoundFinish
    DEF WorkerStep
<1>7. QED
  BY <1>1, <1>2, <1>3, <1>4, <1>5, <1>6 DEF Next

\* Every step keeps Apart, unless main reads the socket of a locked crate.
LEMMA StepApart == ASSUME Sound, Apart, ~overheard', [Next]_vars PROVE Apart'
<1>1. ASSUME UNCHANGED <<setVars, tableVars, lock, mpc, cur, crate>> PROVE Apart'
  BY <1>1, ApartFrame
<1>2. CASE UNCHANGED vars
  BY <1>1, <1>2 DEF vars, mainVars
<1>3. ASSUME NEW l \in Listeners, ClientConnects(l) PROVE Apart'
  BY <1>1, <1>3 DEF ClientConnects, mainVars
<1>4. ASSUME NEW f \in Fds, Sends(f) \/ HangsUp(f) PROVE Apart'
  BY <1>1, <1>4 DEF Sends, HangsUp, mainVars
<1>5. CASE Prompt
  BY <1>1, <1>5 DEF Prompt, mainVars
<1>6. CASE MainStep
  BY <1>6, ApartPass, ApartReadSocket, ApartAcceptConnection, ApartReceive,
     ApartCloseConnection, ApartForget
  DEF MainStep
<1>7. ASSUME NEW w \in Workers, WorkerStep(w) PROVE Apart'
  <2>1. CASE GetAnswer(w)
    BY <1>1, <2>1 DEF GetAnswer, mainVars
  <2>2. QED
    BY <1>7, <2>1, ApartWorkerCloses, ApartWorkerMoves, ApartTakeControl, ApartEndControl
    DEF WorkerStep
<1>8. QED
  BY <1>2, <1>3, <1>4, <1>5, <1>6, <1>7 DEF Next

\* overheard stays once it is set.
LEMMA OverheardStays == ASSUME Sound, [Next]_vars, overheard PROVE overheard'
<1>1. CASE ReadSocket
  BY <1>1, Zenon DEF ReadSocket
<1>2. CASE ~ReadSocket
  BY <1>2 DEF Next, MainStep, WorkerStep, vars, tutVars, ClientConnects, Sends, HangsUp, Prompt,
              TakeFdsetLock, TakeSocketLock, Select, EndOfPass, RefuseConnection,
              AcceptConnection, Receive, CloseConnection, Forget, GetAnswer, GetError,
              WorkerCloses, WantSocketLock, TempUnlock, Relock, TakeControl, EndControl, Finish
<1>3. QED
  BY <1>1, <1>2

\* Every step keeps LoopInv.
LEMMA StepLoopInv == LoopInv /\ [Next]_vars => LoopInv'
<1> SUFFICES ASSUME LoopInv, [Next]_vars PROVE LoopInv'
  OBVIOUS
<1>1. Sound'
  BY StepSound DEF LoopInv
<1>2. ASSUME ~overheard' PROVE Apart'
  <2>1. ~overheard
    BY <1>2, OverheardStays DEF LoopInv
  <2>2. QED
    BY <1>2, <2>1, StepApart DEF LoopInv
<1>3. QED
  BY <1>1, <1>2 DEF LoopInv

\* The inductive invariant of the main loop and its workers holds in every state.
THEOREM LoopInvHolds == SafeSpec => []LoopInv
BY InitLoopInv, StepLoopInv, PTL DEF SafeSpec

\* Every variable keeps its type: in particular views_connected stays within the table.
THEOREM LoopTypeCorrect == SafeSpec => []TypeOK
<1>1. LoopInv => TypeOK
  BY DEF LoopInv, Sound
<1>2. QED
  BY <1>1, LoopInvHolds, PTL

\* The set main gives to select (main.c) never names a closed socket, although workers
\* and sbc_control close sockets in parallel: no EBADF, no shutdown.
THEOREM SelectIsSafe == SafeSpec => []SelectsOpenSockets
<1>1. LoopInv => SelectsOpenSockets
  BY DEF LoopInv, Sound
<1>2. QED
  BY <1>1, LoopInvHolds, PTL

\* No two entries of rw_xl3_fd, rw_cont_fd and rw_sbc_fd name the same descriptor, but
\* for the stale number main is about to clear, until main overhears a worker.
THEOREM NoTwoConnectionsShare == SafeSpec => []DescriptorsDistinct
<1>1. LoopInv => DescriptorsDistinct
  <2> SUFFICES ASSUME Apart, ~overheard PROVE DescriptorsDistinct
    BY DEF LoopInv, DescriptorsDistinct
  <2> DEFINE stale == IF mpc \in {"forget xl3", "forget controller"} THEN {cur} ELSE {NoFd}
             XlFds == {rw_xl3_fd[c] : c \in Crates}
  <2>1. \A f \in XlFds : f \in xl3_fdset \cup {NoFd} \/ f \in stale
    BY DEF Apart, TablesInSets
  <2>2. rw_cont_fd \notin XlFds \ stale \/ rw_cont_fd = NoFd
    <3>1. CASE mpc = "forget controller" /\ rw_cont_fd = cur
      BY <3>1
    <3>2. CASE rw_cont_fd \in cont_fdset \cup {NoFd}
      BY <2>1, <3>2 DEF Apart, SetsSeparate
    <3>3. QED
      BY <3>1, <3>2 DEF Apart, TablesInSets
  <2>3. rw_cont_fd \notin {rw_sbc_fd} \ stale \/ rw_cont_fd = NoFd
    BY DEF Apart, TablesInSets
  <2>4. rw_sbc_fd \notin XlFds \ stale \/ rw_sbc_fd = NoFd
    BY <2>1 DEF Apart, TablesInSets
  <2>5. QED
    BY <2>2, <2>3, <2>4 DEF DescriptorsDistinct, Apart, TablesInSets
<1>2. QED
  BY <1>1, LoopInvHolds, PTL

\* Two crates that are both the last are the same.
LEMMA LastCrate == \A d, e \in Crates : d <= e /\ e <= d => d = e
BY MainLoopConstantsOK DEF Crates

\* A crate's worker comes to work on a socket that main reads in no way but one: main
\* begins to read it while a thread prompts.
LEMMA StepReadsNoBusyCrate ==
  ASSUME Sound, [Next]_vars, NEW c \in Crates, BothRead(c)', ~BothRead(c)
  PROVE  mpc = "loop" /\ reading_from_tut = 1
<1> USE DEF BothRead, Receiving
<1>1. CASE ReadSocket
  <2> DEFINE f == Lowest(readable)
  <2>1. /\ mpc = "loop"
        /\ mpc' = Handler(f)
        /\ IF Handler(f) = "recv xl3" THEN crate' \in CrateOf(f) ELSE crate' = -1
        /\ UNCHANGED <<lock, wpc>>
    BY <1>1, Zenon DEF ReadSocket, workVars
  <2>2. UNCHANGED wpc /\ UNCHANGED lock
    BY <1>1 DEF ReadSocket, workVars
  <2> HIDE DEF f
  <2>3. MayReadXl3(f) /\ c \in CrateOf(f)
    BY <2>1 DEF Handler
  <2>4. lock[c] = 1
    BY <2>2, Numbers DEF Sound, LocksMatch, TypeOK
  <2>5. \A d \in CrateOf(f) : d = c
    BY <2>3, LastCrate DEF CrateOf
  <2>6. QED
    BY <2>1, <2>3, <2>4, <2>5 DEF MayReadXl3
<1>2. CASE ~ReadSocket
  <2>1. ASSUME MainStep PROVE FALSE
    BY <1>2, <2>1 DEF MainStep, TakeFdsetLock, TakeSocketLock, Select, EndOfPass,
       RefuseConnection, AcceptConnection, NextSocket, Receive, CloseConnection, ForgetAs,
       Forget, workVars
  <2>2. ASSUME UNCHANGED <<mainVars, tableVars, wpc>> PROVE FALSE
    BY <2>2 DEF mainVars, tableVars
  <2>3. ASSUME NEW w \in Workers, WorkerStep(w) PROVE FALSE
    <3>1. UNCHANGED mainVars
      BY <2>3 DEF WorkerStep, GetAnswer, GetError, WorkerCloses, WantSocketLock, TempUnlock,
                  Relock, TakeControl, EndControl, Finish
    <3>2. mpc = "recv xl3" /\ crate = c /\ UNCHANGED <<mpc, cur, crate>>
      BY <3>1 DEF mainVars
    <3>3. socket_lock = Main /\ cur \in Fds
      BY <3>2 DEF Sound, MutexesHeld, AtHand
    <3>4. CASE WorkerCloses(w)
      <4>1. \A d \in Crates : rw_xl3_fd'[d] = IF d = w THEN NoFd ELSE rw_xl3_fd[d]
        BY <3>4 DEF WorkerCloses
      <4>2. c # w /\ rw_xl3_fd[c] = cur
        BY <3>2, <3>3, <4>1, Numbers
      <4>3. wpc'[c] = wpc[c]
        BY <3>4, <4>2, Numbers DEF WorkerCloses, SetPc, Sound, TypeOK
      <4>4. QED
        BY <3>2, <4>2, <4>3
    <3>5. CASE ~WorkerCloses(w)
      <4>1. UNCHANGED rw_xl3_fd
        BY <2>3, <3>5 DEF WorkerStep, GetAnswer, GetError, WantSocketLock, TempUnlock,
                    Relock, TakeControl, EndControl, Finish, tableVars
      <4>2. wpc'[c] \in {"run", "close"} => wpc[c] \in {"run", "close"}
        BY <2>3, <3>3, <3>5, Numbers
        DEF WorkerStep, GetAnswer, GetError, WantSocketLock, TempUnlock, Relock, TakeControl,
            EndControl, Finish, SetPc, workVars, Sound, TypeOK
      <4>3. QED
        BY <3>2, <4>1, <4>2
    <3>6. QED
      BY <3>4, <3>5
  <2>4. QED
    BY <1>2, <2>1, <2>2, <2>3
    DEF Next, ClientConnects, Sends, HangsUp, Prompt, vars, workVars
<1>3. QED
  BY <1>1, <1>2

\* Main and a worker read the same crate's socket only after main has begun it during a
\* prompt: socket_lock and the lock word keep them apart over temp_unlock and relock.
THEOREM MainLeavesBusyCrates == SafeSpec => ReadsNoBusyCrate
<1>1. LoopInv /\ [Next]_vars =>
        [\A c \in Crates :
           BothRead(c)' /\ ~BothRead(c) => mpc = "loop" /\ reading_from_tut = 1]_vars
  BY StepReadsNoBusyCrate DEF LoopInv
<1>2. QED
  BY <1>1, LoopInvHolds, PTL DEF SafeSpec, ReadsNoBusyCrate

\* NoneRefused holds when the daemon starts.
LEMMA InitNoneRefused == Init => NoneRefused
BY Numbers DEF Init, NoneRefused

\* If accept never fails and no client comes beyond the tables, every step keeps
\* NoneRefused.
LEMMA StepNoneRefused ==
  ASSUME Refusals = {}, LoopInv, NoneRefused, [Next]_vars PROVE NoneRefused'
<1> USE DEF NoneRefused
<1>1. CASE UNCHANGED vars
  BY <1>1 DEF vars, netVars, setVars, tableVars, mutexes, mainVars
<1>2. ASSUME NEW l \in Listeners, ClientConnects(l) PROVE NoneRefused'
  BY <1>2 DEF ClientConnects, tableVars, mutexes, mainVars
<1>3. ASSUME NEW f \in Fds, Sends(f) \/ HangsUp(f) PROVE NoneRefused'
  BY <1>3 DEF Sends, HangsUp, tableVars, mutexes, mainVars
<1>4. CASE MainStep
  <2>1. CASE TakeFdsetLock \/ TakeSocketLock
    BY <2>1, Numbers DEF TakeFdsetLock, TakeSocketLock, netVars, tableVars
  <2>2. CASE Select
    <3>1. readable' \cap Listeners \subseteq waiting
      BY <2>2, Numbers DEF Select, Ready
    <3>2. QED
      BY <2>2, <3>1, Numbers DEF Select, netVars, tableVars
  <2>3. CASE EndOfPass
    <3>1. main_fdset_lock # Main
      BY <2>3 DEF EndOfPass
    <3>2. QED
      BY <2>3, <3>1 DEF EndOfPass, netVars, tableVars
  <2>4. CASE ReadSocket
    <3>1. PICK f : /\ f \in readable /\ readable' = readable \ {f}
                   /\ \/ f \in Listeners /\ mpc' = "accept" /\ cur' = f
                      \/ mpc' \in Receiving \cup {"loop"}
      <4> DEFINE f == Lowest(readable)
      <4>1. readable # {} /\ readable \subseteq Listeners \cup Fds
        BY <2>4 DEF ReadSocket, LoopInv, Sound, TypeOK
      <4>2. f \in readable
        BY <4>1, LowestIsMember
      <4>3. /\ readable' = readable \ {f} /\ mpc' = Handler(f)
            /\ cur' = IF Handler(f) = "loop" THEN NoFd ELSE f
        BY <2>4, Zenon DEF ReadSocket
      <4> HIDE DEF f
      <4>4. \/ f \in Listeners /\ Handler(f) = "accept"
            \/ Handler(f) \in Receiving \cup {"loop"}
        BY DEF Handler, Receiving
      <4>5. QED
        BY <4>2, <4>3, <4>4
    <3>2. mpc = "loop" /\ UNCHANGED <<netVars, tableVars, mutexes>>
      BY <2>4 DEF ReadSocket
    <3>3. QED
      BY <3>1, <3>2 DEF netVars, tableVars, mutexes, Receiving
  <2>5. CASE RefuseConnection
    <3>1. cur = ContListen => ~(rw_cont_fd > 0)
      BY <2>5 DEF RefuseConnection, NoFd
    <3>2. views_connected \in 0 .. MAX_VIEW_CON
      BY DEF LoopInv, Sound, TypeOK
    <3>3. cur = ViewListen => ~(views_connected >= MAX_VIEW_CON)
      BY <2>5, <3>2, MainLoopConstantsOK DEF RefuseConnection
    <3>4. QED
      BY <2>5, <3>1, <3>3 DEF RefuseConnection, TooMany
  <2>6. CASE AcceptConnection
    <3>1. /\ waiting' = waiting \ {cur} /\ mpc' = "loop" /\ mpc = "accept"
          /\ cur \in waiting \ readable /\ readable' = readable
          /\ main_fdset_lock' = main_fdset_lock /\ main_fdset_lock # Main
      BY <2>6, Numbers DEF AcceptConnection, NextSocket, mutexes
    <3>2. cur # ContListen => rw_cont_fd' = rw_cont_fd
      BY <2>6 DEF AcceptConnection, AcceptController, AcceptViewer, AcceptXl3
    <3>3. cur # ViewListen => views_connected' = views_connected
      BY <2>6 DEF AcceptConnection, AcceptController, AcceptViewer, AcceptXl3
    <3>4. QED
      BY <3>1, <3>2, <3>3
  <2>7. CASE Receive \/ CloseConnection
    BY <2>7 DEF Receive, CloseConnection, NextSocket, ForgetAs, Receiving, tableVars, mutexes
  <2>8. CASE Forget
    <3>1. views_connected \in 0 .. MAX_VIEW_CON
      BY DEF LoopInv, Sound, TypeOK
    <3>2. views_connected < MAX_VIEW_CON => views_connected - 1 < MAX_VIEW_CON
      <4> HIDE DEF NoneRefused
      <4>1. views_connected \in Int /\ MAX_VIEW_CON \in Int
        BY <3>1, MainLoopConstantsOK
      <4>2. \A n, m \in Int : n < m => n - 1 < m
        OBVIOUS
      <4>3. QED
        BY <4>1, <4>2
    <3>3. /\ mpc \in {"forget xl3", "forget controller", "forget viewer"} /\ mpc' = "loop"
          /\ readable' = readable /\ waiting' = waiting /\ main_fdset_lock' = main_fdset_lock
          /\ rw_cont_fd' \in {rw_cont_fd, NoFd}
          /\ views_connected' \in {views_connected, views_connected - 1}
      BY <2>8 DEF Forget, NextSocket, ForgetXl3, ForgetController, ForgetViewer, netVars, mutexes
    <3>4. QED
      BY <3>2, <3>3
  <2>9. QED
    BY <1>4, <2>1, <2>2, <2>3, <2>4, <2>5, <2>6, <2>7, <2>8 DEF MainStep
<1>5. ASSUME NEW w \in Workers, WorkerStep(w) PROVE NoneRefused'
  <2>1. /\ UNCHANGED <<waiting, rw_cont_fd, views_connected, mainVars>>
        /\ main_fdset_lock' \in {main_fdset_lock, Sbc, Nobody}
    BY <1>5 DEF WorkerStep, GetAnswer, GetError, WorkerCloses, WantSocketLock, TempUnlock,
                Relock, TakeControl, EndControl, Finish, netVars, tableVars, mutexes
  <2>2. QED
    BY <2>1, Numbers DEF mainVars
<1>6. CASE Prompt
  BY <1>6 DEF Prompt, netVars, tableVars, mutexes, mainVars
<1>7. QED
  BY <1>1, <1>2, <1>3, <1>4, <1>5, <1>6 DEF Next

\* Main waits for a mutex it holds itself only because of accept_connection's three early
\* returns: without them NoSelfDeadlock holds (MainLoop_refused shows that they break it).
THEOREM OnlyRefusalsLockMainOut ==
  ASSUME Refusals = {} PROVE SafeSpec => []NoSelfDeadlock
<1>1. NoneRefused => NoSelfDeadlock
  BY DEF NoneRefused, NoSelfDeadlock, Receiving
<1>2. LoopInv /\ NoneRefused /\ [Next]_vars => NoneRefused'
  BY StepNoneRefused
<1>3. QED
  BY <1>1, <1>2, InitNoneRefused, LoopInvHolds, PTL DEF SafeSpec
=============================================================================
