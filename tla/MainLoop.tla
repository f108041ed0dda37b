-------------------------------- MODULE MainLoop --------------------------------
(***************************************************************************)
(* The main loop of penn_daq (core/main.c), the connection tables it       *)
(* serves (net/net.c, net/process_packet.c) and the two mutexes under      *)
(* which worker threads change them.                                       *)
(*                                                                         *)
(* Main takes main_fdset_lock, then socket_lock, calls select without a    *)
(* timeout while it holds both, gives main_fdset_lock back, reads every    *)
(* readable socket and gives socket_lock back.  A worker takes             *)
(* main_fdset_lock to close a broken connection and socket_lock to change  *)
(* the lock of its XL3.                                                    *)
(*                                                                         *)
(* File descriptors are numbers, the lowest closed one is opened next, and *)
(* the listening sockets come first: controller, viewers, one per XL3.     *)
(* One worker per crate and one for the SBC stand for the threads of       *)
(* ThreadLocks.  While some thread prompts (read_from_tut), main is let    *)
(* into the sockets of locked crates: see overheard.  cont_lock is never   *)
(* set by the code.                                                        *)
(***************************************************************************)
EXTENDS Integers, FiniteSets

CONSTANTS
  NumCrates,     \* MAX_XL3_CON
  MAX_VIEW_CON,
  NumFds,        \* bound: descriptors for connections
  MaxYields,     \* bound: temp_unlock/relock pairs of one worker
  Refusals,      \* which connections fail: "error" in accept, "full" tables
  Prompts        \* whether threads call read_from_tut

ContListen == 0
ViewListen == 1
Crates     == 1 .. NumCrates
XlListen(c) == 1 + c
Listeners  == 0 .. NumCrates + 1
Fds        == NumCrates + 2 .. NumCrates + 1 + NumFds
NoFd       == -1
Sbc        == 0
Workers    == {Sbc} \cup Crates
Main       == -1
Nobody     == -2

ASSUME MainLoopConstantsOK ==
  /\ NumCrates \in Nat \ {0} /\ MAX_VIEW_CON \in Nat
  /\ NumFds \in Nat \ {0} /\ MaxYields \in Nat
  /\ Refusals \subseteq {"error", "full"} /\ Prompts \in BOOLEAN

VARIABLES
  sock,       \* [Fds -> state of the socket in the kernel]
  waiting,    \* listening sockets with a client to accept
  main_fdset, xl3_fdset, cont_fdset, view_fdset,
  rw_cont_fd, rw_sbc_fd, rw_xl3_fd, rw_view_fd, views_connected,
  lock,       \* sbc_lock and xl3_lock
  main_fdset_lock, socket_lock,   \* who holds the mutex
  mpc, temp, readable, cur, crate,   \* main, and read_xl3_packet's crate
  wpc, wyield,                    \* the workers
  reading_from_tut,
  overheard   \* history: main has read a socket that a worker had locked

netVars   == <<sock, waiting>>
setVars   == <<main_fdset, xl3_fdset, cont_fdset, view_fdset>>
tableVars == <<rw_cont_fd, rw_sbc_fd, rw_xl3_fd, rw_view_fd, views_connected>>
mainVars  == <<mpc, temp, readable, cur, crate>>
workVars  == <<wpc, wyield>>
mutexes   == <<main_fdset_lock, socket_lock>>
tutVars   == <<reading_from_tut, overheard>>
vars == <<netVars, setVars, tableVars, lock, mutexes, mainVars, workVars, tutVars>>

Views == 0 .. MAX_VIEW_CON - 1
Lowest(S) == CHOOSE f \in S : \A g \in S : f <= g
Closed == {f \in Fds : sock[f] = "closed"}

Init ==
  /\ sock = [f \in Fds |-> "closed"]
  /\ waiting = {}
  /\ main_fdset = {} /\ xl3_fdset = {} /\ cont_fdset = {} /\ view_fdset = {}
  /\ rw_cont_fd = NoFd /\ rw_sbc_fd = NoFd
  /\ rw_xl3_fd = [c \in Crates |-> NoFd]
  /\ rw_view_fd = [v \in Views |-> NoFd]
  /\ views_connected = 0
  /\ lock = [w \in Workers |-> 0]
  /\ main_fdset_lock = Nobody /\ socket_lock = Nobody
  /\ mpc = "top" /\ temp = {} /\ readable = {} /\ cur = NoFd /\ crate = -1
  /\ wpc = [w \in Workers |-> "none"]
  /\ wyield = [w \in Workers |-> 0]
  /\ reading_from_tut = 0 /\ overheard = FALSE

-----------------------------------------------------------------------------
(* The other ends of the sockets                                            *)

\* Bound: clients come, and sbc_control connects, only while descriptors are
\* left for all who wait.
ClientConnects(l) ==
  /\ l \notin waiting
  /\ Cardinality(waiting) < Cardinality(Closed)
  /\ l = ContListen /\ "full" \notin Refusals => rw_cont_fd = NoFd
  /\ l = ViewListen /\ "full" \notin Refusals => views_connected < MAX_VIEW_CON
  /\ waiting' = waiting \cup {l}
  /\ UNCHANGED <<sock, setVars, tableVars, lock, mutexes, mainVars, workVars, tutVars>>

\* The SBC only answers, viewers say nothing.
Sends(f) ==
  /\ sock[f] = "quiet"
  /\ f \notin view_fdset
  /\ f = rw_sbc_fd => wpc[Sbc] = "run"
  /\ sock' = [sock EXCEPT ![f] = "data"]
  /\ UNCHANGED <<waiting, setVars, tableVars, lock, mutexes, mainVars, workVars, tutVars>>

\* The peer goes away: recv will return an error or zero bytes.
HangsUp(f) ==
  /\ sock[f] \in {"quiet", "data"}
  /\ sock' = [sock EXCEPT ![f] = "gone"]
  /\ UNCHANGED <<waiting, setVars, tableVars, lock, mutexes, mainVars, workVars, tutVars>>

-----------------------------------------------------------------------------
(* read_from_tut: see_refl, final_test or ecal asks the controller and has its *)
(* answer                                                                   *)

Prompt ==
  /\ Prompts
  /\ reading_from_tut' = 1 - reading_from_tut
  /\ UNCHANGED <<netVars, setVars, tableVars, lock, mutexes, mainVars, workVars, overheard>>

-----------------------------------------------------------------------------
(* One iteration of the main loop                                           *)

Ready == waiting \cup {f \in Fds : sock[f] \in {"data", "gone"}}

TakeFdsetLock ==
  /\ mpc = "top"
  /\ main_fdset_lock = Nobody
  /\ main_fdset_lock' = Main
  /\ mpc' = "want socket"
  /\ UNCHANGED <<netVars, setVars, tableVars, lock, socket_lock, temp, readable, cur, crate,
                 workVars, tutVars>>

\* The sockets of locked devices are left to their workers, but main serves every XL3
\* while a thread prompts.
LeftToWorkers ==
  {rw_xl3_fd[c] : c \in {d \in Crates : lock[d] = 1 /\ reading_from_tut = 0}}
    \cup (IF lock[Sbc] # 0 THEN {rw_sbc_fd} ELSE {})

TakeSocketLock ==
  /\ mpc = "want socket"
  /\ socket_lock = Nobody
  /\ socket_lock' = Main
  /\ temp' = main_fdset \ LeftToWorkers
  /\ mpc' = "select"
  /\ UNCHANGED <<netVars, setVars, tableVars, lock, main_fdset_lock, readable, cur, crate,
                 workVars, tutVars>>

\* select returns when something can be read or any connection can be written.
Select ==
  /\ mpc = "select"
  /\ temp # {} \/ waiting # {}
  /\ readable' = (temp \cup Listeners) \cap Ready
  /\ main_fdset_lock' = Nobody
  /\ mpc' = "loop"
  /\ temp' = {}
  /\ UNCHANGED <<netVars, setVars, tableVars, lock, socket_lock, cur, crate, workVars, tutVars>>

EndOfPass ==
  /\ mpc = "loop"
  /\ readable = {}
  /\ socket_lock' = Nobody
  /\ mpc' = "top"
  /\ UNCHANGED <<netVars, setVars, tableVars, lock, main_fdset_lock, temp, readable, cur, crate,
                 workVars, tutVars>>

\* The handler of cur is over.
NextSocket == mpc' = "loop" /\ cur' = NoFd /\ crate' = -1

\* The last crate whose number f is.
CrateOf(f) == {c \in Crates : rw_xl3_fd[c] = f /\ \A d \in Crates : rw_xl3_fd[d] = f => d <= c}

\* read_xl3_packet finds a crate that no worker has locked, unless a thread prompts.
MayReadXl3(f) == \E c \in CrateOf(f) : lock[c] # 1 \/ reading_from_tut = 1

\* Which handler read_socket calls, and whether it goes on to accept or recv.
Handler(f) ==
  IF f \in Listeners THEN "accept"
  ELSE IF f \in xl3_fdset THEN (IF MayReadXl3(f) THEN "recv xl3" ELSE "loop")
  ELSE IF f \in cont_fdset THEN "recv controller"
  ELSE IF f \in view_fdset THEN "recv viewer"
  ELSE "loop"

\* read_socket
ReadSocket ==
  /\ mpc = "loop"
  /\ readable # {}
  /\ LET f == Lowest(readable) IN
       /\ readable' = readable \ {f}
       /\ mpc' = Handler(f)
       /\ cur' = IF Handler(f) = "loop" THEN NoFd ELSE f
       /\ IF Handler(f) = "recv xl3" THEN crate' \in CrateOf(f) ELSE crate' = -1
       /\ overheard' = (overheard \/ (Handler(f) = "recv xl3" /\ lock[crate'] = 1))
  /\ UNCHANGED <<netVars, setVars, tableVars, lock, mutexes, temp, workVars, reading_from_tut>>

-----------------------------------------------------------------------------
(* accept_connection                                                        *)

TooMany ==
  \/ cur = ContListen /\ rw_cont_fd > 0
  \/ cur = ViewListen /\ views_connected >= MAX_VIEW_CON

\* Three early returns: accept fails, a second controller, too many viewers.
\* They leave with main_fdset_lock.
RefuseConnection ==
  /\ mpc = "accept"
  /\ main_fdset_lock = Nobody
  /\ TooMany \/ "error" \in Refusals
  /\ main_fdset_lock' = Main
  /\ waiting' = waiting \ {cur}
  /\ NextSocket
  /\ UNCHANGED <<sock, setVars, tableVars, lock, socket_lock, temp, readable, workVars, tutVars>>

AcceptController(f) ==
  /\ cur = ContListen /\ rw_cont_fd = NoFd
  /\ rw_cont_fd' = f
  /\ cont_fdset' = cont_fdset \cup {f}
  /\ main_fdset' = main_fdset \cup {f}
  /\ sock' = [sock EXCEPT ![f] = "quiet"]
  /\ UNCHANGED <<xl3_fdset, view_fdset, rw_sbc_fd, rw_xl3_fd, rw_view_fd, views_connected>>

\* Bug: one viewer too many.
AcceptViewerTooMany(f) ==
  /\ cur = ViewListen /\ views_connected <= MAX_VIEW_CON
  /\ views_connected' = views_connected + 1
  /\ LET free == {v \in Views : rw_view_fd[v] = NoFd} IN
       rw_view_fd' = IF free = {} THEN rw_view_fd
                     ELSE [rw_view_fd EXCEPT ![Lowest(free)] = f]
  /\ view_fdset' = view_fdset \cup {f}
  /\ main_fdset' = main_fdset \cup {f}
  /\ sock' = [sock EXCEPT ![f] = "quiet"]
  /\ UNCHANGED <<xl3_fdset, cont_fdset, rw_cont_fd, rw_sbc_fd, rw_xl3_fd>>

AcceptViewer(f) ==
  /\ cur = ViewListen /\ views_connected < MAX_VIEW_CON
  /\ views_connected' = views_connected + 1
  /\ LET free == {v \in Views : rw_view_fd[v] = NoFd} IN
       rw_view_fd' = IF free = {} THEN rw_view_fd
                     ELSE [rw_view_fd EXCEPT ![Lowest(free)] = f]
  /\ view_fdset' = view_fdset \cup {f}
  /\ main_fdset' = main_fdset \cup {f}
  /\ sock' = [sock EXCEPT ![f] = "quiet"]
  /\ UNCHANGED <<xl3_fdset, cont_fdset, rw_cont_fd, rw_sbc_fd, rw_xl3_fd>>

\* Bug: the old connection stays in main_fdset.
AcceptXl3KeepingOld(c, f) ==
  /\ cur = XlListen(c)
  /\ xl3_fdset' = (xl3_fdset \ {rw_xl3_fd[c]}) \cup {f}
  /\ main_fdset' = main_fdset \cup {f}
  /\ sock' = [g \in Fds |-> IF g = f THEN "quiet"
                            ELSE IF g = rw_xl3_fd[c] THEN "closed" ELSE sock[g]]
  /\ rw_xl3_fd' = [rw_xl3_fd EXCEPT ![c] = f]
  /\ UNCHANGED <<cont_fdset, view_fdset, rw_cont_fd, rw_sbc_fd, rw_view_fd, views_connected>>

\* A crate that connects again replaces its old connection.
AcceptXl3(c, f) ==
  /\ cur = XlListen(c)
  /\ xl3_fdset' = (xl3_fdset \ {rw_xl3_fd[c]}) \cup {f}
  /\ main_fdset' = (main_fdset \ {rw_xl3_fd[c]}) \cup {f}
  /\ sock' = [g \in Fds |-> IF g = f THEN "quiet"
                            ELSE IF g = rw_xl3_fd[c] THEN "closed" ELSE sock[g]]
  /\ rw_xl3_fd' = [rw_xl3_fd EXCEPT ![c] = f]
  /\ UNCHANGED <<cont_fdset, view_fdset, rw_cont_fd, rw_sbc_fd, rw_view_fd, views_connected>>

\* The mutex is taken at the top and given back at the end.
AcceptConnection ==
  /\ mpc = "accept"
  /\ main_fdset_lock = Nobody
  /\ \E f \in Closed :
       /\ f = Lowest(Closed)
       /\ \/ AcceptController(f)
          \/ AcceptViewer(f)
          \/ \E c \in Crates : AcceptXl3(c, f)
  /\ waiting' = waiting \ {cur}
  /\ NextSocket
  /\ UNCHANGED <<lock, mutexes, temp, readable, workVars, tutVars>>

-----------------------------------------------------------------------------
(* recv in read_xl3_packet, read_control_command and read_viewer_data       *)

FdOf(w) == IF w = Sbc THEN rw_sbc_fd ELSE rw_xl3_fd[w]

\* thread_and_lock and pthread_create, for a command that needs device w;
\* sbc_control needs no connection.
StartWorker(w) ==
  /\ lock[w] = 0
  /\ lock' = [lock EXCEPT ![w] = 1]
  /\ \/ FdOf(w) > 0 /\ wpc' = [wpc EXCEPT ![w] = "run"]
     \/ w = Sbc /\ wpc' = [wpc EXCEPT ![w] = "control"]
  /\ wyield' = [wyield EXCEPT ![w] = IF w = Sbc THEN 0 ELSE MaxYields]

Receiving == {"recv xl3", "recv controller", "recv viewer"}

\* A packet is handled without touching this module's state; a command may
\* start a worker.  recv blocks while there is nothing to read.
Receive ==
  /\ mpc \in Receiving
  /\ sock[cur] = "data"
  /\ sock' = [sock EXCEPT ![cur] = "quiet"]
  /\ NextSocket
  /\ \/ UNCHANGED <<lock, workVars>>
     \/ mpc = "recv controller" /\ \E w \in Workers : StartWorker(w)
  /\ UNCHANGED <<waiting, setVars, tableVars, mutexes, temp, readable, tutVars>>

ForgetAs == CASE mpc = "recv xl3" -> "forget xl3"
              [] mpc = "recv controller" -> "forget controller"
              [] mpc = "recv viewer" -> "forget viewer"

\* The crate's worker has closed the socket under main's recv.
ClosedByWorker == mpc = "recv xl3" /\ rw_xl3_fd[crate] # cur

\* An error or an EOF: the number, whosever it is by now, is closed under
\* main_fdset_lock ...
CloseConnection ==
  /\ mpc \in Receiving
  /\ sock[cur] \in {"gone", "closed"} \/ ClosedByWorker
  /\ main_fdset_lock = Nobody
  /\ sock' = [sock EXCEPT ![cur] = "closed"]
  /\ main_fdset' = main_fdset \ {cur}
  /\ xl3_fdset'  = IF mpc = "recv xl3" THEN xl3_fdset \ {cur} ELSE xl3_fdset
  /\ cont_fdset' = IF mpc = "recv controller" THEN cont_fdset \ {cur} ELSE cont_fdset
  /\ view_fdset' = IF mpc = "recv viewer" THEN view_fdset \ {cur} ELSE view_fdset
  /\ mpc' = ForgetAs
  /\ UNCHANGED <<waiting, tableVars, lock, mutexes, temp, readable, cur, crate, workVars, tutVars>>

\* Bug: rw_xl3_fd keeps the closed descriptor.
RememberXl3 ==
  /\ mpc = "forget xl3"
  /\ UNCHANGED <<rw_xl3_fd, rw_cont_fd, rw_view_fd, views_connected>>

\* ... and its number is removed from the tables afterwards.
ForgetXl3 ==
  /\ mpc = "forget xl3"
  /\ rw_xl3_fd' = [rw_xl3_fd EXCEPT ![crate] = NoFd]
  /\ UNCHANGED <<rw_cont_fd, rw_view_fd, views_connected>>

ForgetController ==
  /\ mpc = "forget controller"
  /\ rw_cont_fd' = NoFd
  /\ UNCHANGED <<rw_xl3_fd, rw_view_fd, views_connected>>

\* The viewers' table is searched only up to views_connected.
ForgetViewer ==
  /\ mpc = "forget viewer"
  /\ rw_view_fd' = [v \in Views |-> IF v < views_connected /\ rw_view_fd[v] = cur
                                   THEN NoFd ELSE rw_view_fd[v]]
  /\ views_connected' = views_connected - 1
  /\ UNCHANGED <<rw_xl3_fd, rw_cont_fd>>

Forget ==
  /\ ForgetXl3 \/ ForgetController \/ ForgetViewer
  /\ NextSocket
  /\ UNCHANGED <<netVars, setVars, rw_sbc_fd, lock, mutexes, temp, readable, workVars, tutVars>>

MainStep ==
  \/ TakeFdsetLock \/ TakeSocketLock \/ Select \/ EndOfPass
  \/ ReadSocket \/ RefuseConnection \/ AcceptConnection
  \/ Receive \/ CloseConnection \/ Forget

-----------------------------------------------------------------------------
(* A worker thread that has locked device w                                 *)

SetPc(w, p) == wpc' = [wpc EXCEPT ![w] = p]

\* do_xl3_cmd, do_mtc_cmd: an answer arrives ...
GetAnswer(w) ==
  /\ wpc[w] = "run"
  /\ FdOf(w) > 0 /\ sock[FdOf(w)] = "data"
  /\ sock' = [sock EXCEPT ![FdOf(w)] = "quiet"]
  /\ UNCHANGED <<waiting, setVars, tableVars, lock, mutexes, mainVars, workVars, tutVars>>

\* ... or recv fails.
GetError(w) ==
  /\ wpc[w] = "run"
  /\ FdOf(w) > 0 /\ sock[FdOf(w)] = "gone"
  /\ SetPc(w, "close")
  /\ UNCHANGED <<netVars, setVars, tableVars, lock, mutexes, mainVars, wyield, tutVars>>

\* The number is read again once the mutex is held.  If main has closed and forgotten it,
\* FD_CLR(-1) touches no descriptor in use here (bit 63 of the set) and close(-1) fails.
WorkerCloses(w) ==
  /\ wpc[w] = "close"
  /\ main_fdset_lock = Nobody
  /\ sock' = [f \in Fds |-> IF f = FdOf(w) THEN "closed" ELSE sock[f]]
  /\ main_fdset' = main_fdset \ {FdOf(w)}
  /\ xl3_fdset' = IF w = Sbc THEN xl3_fdset ELSE xl3_fdset \ {FdOf(w)}
  /\ rw_sbc_fd' = IF w = Sbc THEN NoFd ELSE rw_sbc_fd
  /\ rw_xl3_fd' = [c \in Crates |-> IF c = w THEN NoFd ELSE rw_xl3_fd[c]]
  /\ SetPc(w, "run")
  /\ UNCHANGED <<waiting, cont_fdset, view_fdset, rw_cont_fd, rw_view_fd, views_connected,
                 lock, mutexes, mainVars, wyield, tutVars>>

WantSocketLock(w) ==
  /\ \/ wpc[w] = "run" /\ wyield[w] > 0 /\ SetPc(w, "want yield")
        /\ wyield' = [wyield EXCEPT ![w] = @ - 1]
     \/ wpc[w] = "yield" /\ SetPc(w, "want relock") /\ UNCHANGED wyield
  /\ UNCHANGED <<netVars, setVars, tableVars, lock, mutexes, mainVars, tutVars>>

\* temp_unlock and relock hold socket_lock while they set the locks.
TempUnlock(w) ==
  /\ wpc[w] = "want yield"
  /\ socket_lock = Nobody
  /\ lock' = [lock EXCEPT ![w] = 2]
  /\ SetPc(w, "yield")
  /\ UNCHANGED <<netVars, setVars, tableVars, mutexes, mainVars, wyield, tutVars>>

\* Bug: does not wait for main to finish its pass.
RelockAtOnce(w) ==
  /\ wpc[w] = "want relock"
  /\ lock' = [lock EXCEPT ![w] = 1]
  /\ SetPc(w, "run")
  /\ UNCHANGED <<netVars, setVars, tableVars, mutexes, mainVars, wyield, tutVars>>

Relock(w) ==
  /\ wpc[w] = "want relock"
  /\ socket_lock = Nobody
  /\ lock' = [lock EXCEPT ![w] = 1]
  /\ SetPc(w, "run")
  /\ UNCHANGED <<netVars, setVars, tableVars, mutexes, mainVars, wyield, tutVars>>

\* pt_sbc_control holds main_fdset_lock from the first step to the last;
\* an old connection is closed when it reconnects or kills.
TakeControl ==
  /\ wpc[Sbc] = "control"
  /\ main_fdset_lock = Nobody
  /\ main_fdset_lock' = Sbc
  /\ SetPc(Sbc, "connect")
  /\ \/ UNCHANGED <<sock, main_fdset, rw_sbc_fd>>
     \/ /\ rw_sbc_fd > 0
        /\ sock' = [sock EXCEPT ![rw_sbc_fd] = "closed"]
        /\ main_fdset' = main_fdset \ {rw_sbc_fd}
        /\ rw_sbc_fd' = NoFd
  /\ UNCHANGED <<waiting, xl3_fdset, cont_fdset, view_fdset, rw_cont_fd, rw_xl3_fd,
                 rw_view_fd, views_connected, lock, socket_lock, mainVars, wyield, tutVars>>

\* Bug: an exit that leaves with the mutex.
EndControlKeepingLock ==
  /\ wpc[Sbc] = "connect"
  /\ SetPc(Sbc, "over")
  /\ \/ UNCHANGED <<sock, main_fdset, rw_sbc_fd>>
     \/ /\ rw_sbc_fd = NoFd
        /\ Cardinality(waiting) < Cardinality(Closed)
        /\ \E f \in Closed :
             /\ f = Lowest(Closed)
             /\ sock' = [sock EXCEPT ![f] = "quiet"]
             /\ main_fdset' = main_fdset \cup {f}
             /\ rw_sbc_fd' = f
  /\ UNCHANGED <<waiting, xl3_fdset, cont_fdset, view_fdset, rw_cont_fd, rw_xl3_fd,
                 rw_view_fd, views_connected, lock, mutexes, mainVars, wyield, tutVars>>

\* Connected, or not: killed, connected already, socket or connect failed.
EndControl ==
  /\ wpc[Sbc] = "connect"
  /\ main_fdset_lock' = Nobody
  /\ SetPc(Sbc, "over")
  /\ \/ UNCHANGED <<sock, main_fdset, rw_sbc_fd>>
     \/ /\ rw_sbc_fd = NoFd
        /\ Cardinality(waiting) < Cardinality(Closed)
        /\ \E f \in Closed :
             /\ f = Lowest(Closed)
             /\ sock' = [sock EXCEPT ![f] = "quiet"]
             /\ main_fdset' = main_fdset \cup {f}
             /\ rw_sbc_fd' = f
  /\ UNCHANGED <<waiting, xl3_fdset, cont_fdset, view_fdset, rw_cont_fd, rw_xl3_fd,
                 rw_view_fd, views_connected, lock, socket_lock, mainVars, wyield, tutVars>>

\* unthread_and_unlock
Finish(w) ==
  /\ wpc[w] \in {"run", "over"}
  /\ lock' = [lock EXCEPT ![w] = 0]
  /\ SetPc(w, "none")
  /\ UNCHANGED <<netVars, setVars, tableVars, mutexes, mainVars, wyield, tutVars>>

WorkerStep(w) ==
  \/ GetAnswer(w) \/ GetError(w) \/ WorkerCloses(w)
  \/ WantSocketLock(w) \/ TempUnlock(w) \/ Relock(w)
  \/ w = Sbc /\ (TakeControl \/ EndControl)
  \/ Finish(w)

-----------------------------------------------------------------------------
Next ==
  \/ \E l \in Listeners : ClientConnects(l)
  \/ \E f \in Fds : Sends(f) \/ HangsUp(f)
  \/ Prompt
  \/ MainStep
  \/ \E w \in Workers : WorkerStep(w)

SafeSpec == Init /\ [][Next]_vars

\* A worker waits for a mutex, one at a time.
GetMutex(w) ==
  \/ WorkerCloses(w) \/ TempUnlock(w) \/ Relock(w)
  \/ w = Sbc /\ TakeControl

(* Main and the workers run on and every command's work ends, even if its   *)
(* XL3 fails and connects again and again (strong fairness of Finish).      *)
(* Main takes and gives back the mutexes in each pass, and a waiting worker *)
(* gets them sometime (strong fairness).  A controller connects again when  *)
(* it has gone, so that select returns, and what main waits for in recv     *)
(* comes sometime: XL3s ping.                                               *)
Fairness ==
  /\ WF_vars(MainStep)
  /\ WF_vars(ClientConnects(ContListen))
  /\ WF_vars(mpc \in Receiving /\ Sends(cur))
  /\ WF_vars(EndControl \/ Finish(Sbc))
  /\ \A w \in Workers : SF_vars(GetMutex(w))
  /\ \A c \in Crates :
       /\ SF_vars(Finish(c))
       /\ WF_vars(WantSocketLock(c) /\ wpc[c] = "yield")

Spec == SafeSpec /\ Fairness

-----------------------------------------------------------------------------
(* Properties                                                               *)

TypeOK ==
  /\ sock \in [Fds -> {"closed", "quiet", "data", "gone"}]
  /\ waiting \subseteq Listeners
  /\ main_fdset \cup xl3_fdset \cup cont_fdset \cup view_fdset \cup temp \subseteq Fds
  /\ {rw_cont_fd, rw_sbc_fd} \subseteq Fds \cup {NoFd}
  /\ rw_xl3_fd \in [Crates -> Fds \cup {NoFd}]
  /\ rw_view_fd \in [Views -> Fds \cup {NoFd}]
  /\ views_connected \in 0 .. MAX_VIEW_CON
  /\ lock \in [Workers -> {0, 1, 2}]
  /\ main_fdset_lock \in {Nobody, Main, Sbc} /\ socket_lock \in {Nobody, Main}
  /\ mpc \in {"top", "want socket", "select", "loop", "accept",
              "forget xl3", "forget controller", "forget viewer"} \cup Receiving
  /\ readable \subseteq Listeners \cup Fds
  /\ cur \in Listeners \cup Fds \cup {NoFd} /\ crate \in Crates \cup {-1}
  /\ wpc \in [Workers -> {"none", "run", "close", "want yield", "yield", "want relock",
                          "control", "connect", "over"}]
  /\ wyield \in [Workers -> 0 .. MaxYields]
  /\ reading_from_tut \in {0, 1} /\ overheard \in BOOLEAN

Open == Fds \ Closed

(* The sets main gives to select name open sockets only, whatever workers   *)
(* close meanwhile: a closed one fails the call with EBADF and main shuts   *)
(* the daemon down.  This holds even when numbers are mixed up (overheard). *)
SelectsOpenSockets == mpc = "select" => temp \subseteq Open

(* No two connections share a descriptor, though numbers are reused as soon *)
(* as they are closed and main clears rw_xl3_fd and rw_cont_fd only after   *)
(* the close - unless main has read a locked socket during a prompt: then   *)
(* its worker and main may both close it, and the second close can hit a    *)
(* connection that has the number by now.                                   *)
DescriptorsDistinct == ~overheard =>
  LET stale == IF mpc \in {"forget xl3", "forget controller"} THEN {cur} ELSE {NoFd}
      XlFds == {rw_xl3_fd[c] : c \in Crates}
  IN /\ \A c, d \in Crates : rw_xl3_fd[c] = rw_xl3_fd[d] /\ c # d => rw_xl3_fd[c] = NoFd
     /\ rw_cont_fd \notin (XlFds \cup {rw_sbc_fd}) \ stale \/ rw_cont_fd = NoFd
     /\ rw_sbc_fd \notin XlFds \ stale \/ rw_sbc_fd = NoFd

(* A worker at work on a crate and main in recv on the crate's socket: main *)
(* begins this only while a thread prompts, when read_xl3_packet lets it,   *)
(* and no worker ever steps into it - neither one that was started in this  *)
(* very pass, after select, nor one that called temp_unlock before the pass *)
(* and relock during it.                                                    *)
BothRead(c) == mpc = "recv xl3" /\ crate = c /\ rw_xl3_fd[c] = cur /\ wpc[c] \in {"run", "close"}

ReadsNoBusyCrate ==
  [][\A c \in Crates :
       BothRead(c)' /\ ~BothRead(c) => mpc = "loop" /\ reading_from_tut = 1]_vars

(* Main never waits for a mutex it holds itself.                            *)
NoSelfDeadlock ==
  /\ mpc \in {"top", "accept"} => main_fdset_lock # Main
  /\ mpc \in Receiving /\ sock[cur] = "gone" => main_fdset_lock # Main

(* A worker gets through its mutexes and ends, whatever main does.          *)
WorkersEnd == \A w \in Workers : wpc[w] # "none" ~> wpc[w] = "none"

-----------------------------------------------------------------------------
(* What makes these properties inductive                                    *)

\* The SBC's worker has main_fdset_lock while it connects, main while it prepares its
\* select, and main has socket_lock from there to the end of the pass.
MutexesHeld ==
  /\ mpc \in {"want socket", "select"} => main_fdset_lock = Main
  /\ wpc[Sbc] = "connect" => main_fdset_lock = Sbc
  /\ mpc \notin {"top", "want socket"} => socket_lock = Main

\* A lock word says where its worker is.
LocksMatch ==
  \A w \in Workers :
    /\ lock[w] = 0 <=> wpc[w] = "none"
    /\ lock[w] = 2 <=> wpc[w] \in {"yield", "want relock"}
    /\ w # Sbc => wpc[w] \notin {"control", "connect", "over"}

\* main_fdset names open sockets only, whoever closes them.
MainSetOpen == main_fdset \subseteq Open

\* What main has at hand, and the count of viewers, which leaves room for the one that
\* main is about to forget.
AtHand ==
  /\ mpc = "accept" => cur \in Listeners
  /\ mpc \in Receiving \cup {"forget xl3", "forget controller", "forget viewer"} => cur \in Fds
  /\ mpc \in {"recv xl3", "forget xl3"} => crate \in Crates
  /\ mpc = "recv viewer" => cur \in view_fdset
  /\ views_connected >= Cardinality(view_fdset) + (IF mpc = "forget viewer" THEN 1 ELSE 0)

\* A descriptor belongs to one kind of peer.
SetsSeparate ==
  /\ xl3_fdset \cup cont_fdset \cup view_fdset \subseteq main_fdset
  /\ xl3_fdset \cap cont_fdset = {}
  /\ xl3_fdset \cap view_fdset = {}
  /\ cont_fdset \cap view_fdset = {}

\* A table names members of its set, except for the one that main is about to forget.
TablesInSets ==
  /\ \A c \in Crates :
       rw_xl3_fd[c] \in xl3_fdset \cup {NoFd} \/ (mpc = "forget xl3" /\ rw_xl3_fd[c] = cur)
  /\ rw_cont_fd \in cont_fdset \cup {NoFd} \/ (mpc = "forget controller" /\ rw_cont_fd = cur)
  /\ rw_sbc_fd \in (main_fdset \ (xl3_fdset \cup cont_fdset \cup view_fdset)) \cup {NoFd}
  /\ \A c, d \in Crates : rw_xl3_fd[c] = rw_xl3_fd[d] /\ c # d => rw_xl3_fd[c] = NoFd

\* The connection at hand is of the kind main takes it for; the crate of an XL3 stays
\* unlocked until it is forgotten.
CurAtHand ==
  /\ mpc = "recv xl3" => cur \in xl3_fdset
  /\ mpc = "recv controller" => cur \in cont_fdset
  /\ mpc \in {"recv xl3", "forget xl3"} => rw_xl3_fd[crate] = cur /\ lock[crate] # 1
  /\ mpc \in {"forget xl3", "forget controller", "forget viewer"} =>
       cur \notin xl3_fdset \cup cont_fdset \cup view_fdset

\* views_connected counts the viewers.
ViewersCounted ==
  views_connected = Cardinality(view_fdset) + (IF mpc = "forget viewer" THEN 1 ELSE 0)

\* Holds whatever main reads ...
Sound ==
  TypeOK /\ SelectsOpenSockets /\ MutexesHeld /\ LocksMatch /\ MainSetOpen /\ AtHand

\* ... and as long as main and a worker have not read the same socket.
Apart == SetsSeparate /\ TablesInSets /\ CurAtHand /\ ViewersCounted

LoopInv == Sound /\ (~overheard => Apart)

\* When no connection is refused, a client that waits finds room in its table, and main
\* has main_fdset_lock only while it prepares its select.
NoneRefused ==
  /\ ContListen \in waiting => rw_cont_fd = NoFd
  /\ ViewListen \in waiting => views_connected < MAX_VIEW_CON
  /\ readable \cap Listeners \subseteq waiting
  /\ mpc = "accept" => cur \in waiting \ readable
  /\ main_fdset_lock = Main => mpc \in {"want socket", "select"}
=============================================================================
