------------------------------- MODULE Collector -------------------------------
(***************************************************************************)
(* Results that an XL3 sends after its reply: wait_for_multifc_results and *)
(* wait_for_cald_test_results (xl3/xl3_rw.c) as the commands of one crate  *)
(* call them, one command after the other.                                 *)
(*                                                                         *)
(* A queued read is first acknowledged (do_xl3_cmd), then its results come *)
(* in packets of several.  A CALD test is not acknowledged: its points     *)
(* come until an end packet.  The XL3 acknowledges in order and works off  *)
(* its queue in order, both in its own time: after a time-out the results  *)
(* of a command arrive while a later one waits.  A connection that breaks  *)
(* is replaced between commands (Xl3Cmd has what happens if it is replaced *)
(* under a command), and nobody prompts the controller meanwhile.          *)
(*                                                                         *)
(* id is the identity of a request, which the program does not see.        *)
(***************************************************************************)
EXTENDS Integers, Sequences

CONSTANTS
  xl3num,       \* the crate's number, from 0
  num_cmds,     \* results of a queued read; points per slot of a CALD test
  slots,        \* the slots of a CALD test, from 0
  Modulus,      \* 65536
  MaxRequests,  \* bound: commands
  MaxNoise,     \* bound: packets nobody asked for
  MaxFaults     \* bound: broken connections

ASSUME CollectorConstantsOK ==
  /\ {xl3num, MaxRequests, MaxNoise, MaxFaults} \subseteq Nat
  /\ {num_cmds, slots} \subseteq Nat \ {0}
  /\ Modulus \in Nat /\ Modulus > 1

VARIABLES
  command_number,
  multifc_buffer, multifc_buffer_full,
  connected,                     \* rw_xl3_fd[xl3num] > 0
  broken,                        \* the peer has gone
  inbox,                         \* packets to be received
  asked,                         \* requests the XL3 is not done with
  pc, request, result,           \* the command at work; what its last call returned
  buffer,                        \* the results it has been given; current_num is its length
  commands, looked,              \* the packet at hand; how many results have been looked at
  point_buf, adc_buf,            \* likewise of a CALD test: by slot and point
  current,                       \* current_slot and current_point
  settled,                       \* nothing was underway when it began (history)
  noise, faults                  \* counters for the bounds

xl3     == <<inbox, asked, noise>>
store   == <<multifc_buffer, multifc_buffer_full>>
cald    == <<point_buf, adc_buf, current>>
command == <<pc, request, result, buffer, commands, looked, cald, settled>>
vars == <<command_number, store, connected, broken, xl3, command, faults>>

NoRequest == [kind |-> "none", num |-> 0, id |-> 0]

Init ==
  /\ command_number = 0
  /\ multifc_buffer = <<>> /\ multifc_buffer_full = FALSE
  /\ connected = TRUE /\ broken = FALSE
  /\ inbox = <<>> /\ asked = <<>>
  /\ pc = "idle" /\ request = NoRequest /\ result = 0 /\ settled = TRUE
  /\ buffer = <<>> /\ commands = <<>> /\ looked = 0 /\ point_buf = <<>> /\ adc_buf = <<>> /\ current = <<0, 0>>
  /\ noise = 0 /\ faults = 0

-----------------------------------------------------------------------------
(* The XL3                                                                  *)

Packet(type, r, results) == [type |-> type, num |-> r.num, id |-> r.id, results |-> results]
Noise == Packet("noise", NoRequest, <<>>)  \* MESSAGE_ID, PING_ID and the like

Say(p) == connected /\ ~broken /\ inbox' = Append(inbox, p)

\* A queued read is acknowledged when it is received, maybe before the queue gets to it.
Acknowledge ==
  /\ \E i \in DOMAIN asked :
       /\ asked[i].kind = "queue" /\ ~asked[i].begun
       /\ \A k \in 1 .. i - 1 : asked[k].begun \/ asked[k].kind = "cald"
       /\ Say(Packet("reply", asked[i], <<>>))
       /\ asked' = [asked EXCEPT ![i].begun = TRUE]
  /\ UNCHANGED <<command_number, store, connected, broken, noise, command, faults>>

\* Results first .. last of a request, numbered from 0.
Results(r, first, last) ==
  [i \in 1 .. last - first + 1 |-> [num |-> r.num, id |-> r.id, cmd_num |-> first + i - 1]]

\* The next n results of an acknowledged request; it is done after the last.
SendResults(n) ==
  /\ asked # <<>>
  /\ LET r == Head(asked)
     IN /\ r.kind = "queue" /\ r.begun
        /\ r.sent + n <= num_cmds
        /\ Say(Packet("acks", r, Results(r, r.sent, r.sent + n - 1)))
        /\ asked' = IF r.sent + n = num_cmds THEN Tail(asked)
                    ELSE [asked EXCEPT ![1].sent = @ + n]
  /\ UNCHANGED <<command_number, store, connected, broken, noise, command, faults>>

\* The next n points of a slot.
SendPoints(n) ==
  /\ asked # <<>>
  /\ LET r == Head(asked)
     IN /\ r.kind = "cald" /\ r.sent < slots * num_cmds
        /\ (r.sent % num_cmds) + n <= num_cmds
        /\ Say(Packet("points", r, Results(r, r.sent, r.sent + n - 1)))
        /\ asked' = [asked EXCEPT ![1].sent = @ + n]
  /\ UNCHANGED <<command_number, store, connected, broken, noise, command, faults>>

EndCald ==
  /\ asked # <<>>
  /\ LET r == Head(asked) IN /\ r.kind = "cald" /\ r.sent = slots * num_cmds
                             /\ Say(Packet("end", r, <<>>))
  /\ asked' = Tail(asked)
  /\ UNCHANGED <<command_number, store, connected, broken, noise, command, faults>>

SayMore ==
  /\ noise < MaxNoise /\ noise' = noise + 1
  /\ Say(Noise)
  /\ UNCHANGED <<command_number, store, connected, broken, asked, command, faults>>

Break ==
  /\ connected /\ ~broken /\ faults < MaxFaults
  /\ broken' = TRUE /\ faults' = faults + 1
  /\ asked' = <<>>
  /\ UNCHANGED <<command_number, store, connected, inbox, noise, command>>

\* Main accepts a new connection; the old one, if any, is closed.
Reconnect ==
  /\ pc = "idle" /\ (broken \/ ~connected)
  /\ connected' = TRUE /\ broken' = FALSE
  /\ inbox' = <<>>
  /\ UNCHANGED <<command_number, store, asked, noise, command, faults>>

\* Between commands the main loop reads the crate.  (Under a command it does so only while a
\* session or see_refl prompts, reading_from_tut: Xl3Cmd has that, this module has not.)
ReadByMain ==
  /\ pc = "idle" /\ inbox # <<>>
  /\ inbox' = Tail(inbox)
  /\ UNCHANGED <<command_number, store, connected, broken, asked, noise, command, faults>>

-----------------------------------------------------------------------------
(* The command                                                              *)

Return(code) == pc' = "idle" /\ result' = code

Packets(s) == {s[k] : k \in DOMAIN s}
Unread == (Packets(inbox) \ {Noise}) \cup Packets(asked)

\* Bound: nothing stays unread while the numbers go round.
MayAsk ==
  /\ pc = "idle" /\ connected /\ request.id < MaxRequests
  /\ \A p \in Unread : request.id + 1 - p.id < Modulus

Ask(kind) ==
  /\ request' = [kind |-> kind, num |-> command_number, id |-> request.id + 1]
  /\ asked' = IF broken THEN asked
              ELSE Append(asked, [kind |-> kind, num |-> command_number % Modulus,
                                  id |-> request.id + 1, begun |-> FALSE, sent |-> 0])
  /\ buffer' = <<>> /\ point_buf' = <<>> /\ adc_buf' = <<>> /\ current' = <<0, 0>>
  /\ result' = 0
  /\ settled' = (asked = <<>> /\ inbox = <<>>)
  /\ UNCHANGED <<store, connected, broken, inbox, noise, commands, looked, faults>>

\* Bug: the number is advanced for the reply as well.
QueueCommands_twice ==
  /\ MayAsk
  /\ Ask("queue") /\ pc' = "reply" /\ command_number' = command_number + 2

\* do_xl3_cmd with QUEUE_CMDS_ID or READ_PEDESTALS_ID.
QueueCommands ==
  /\ MayAsk
  /\ Ask("queue") /\ pc' = "reply" /\ command_number' = command_number + 1

\* do_xl3_cmd_no_response, which does not advance the number.
StartCald ==
  /\ MayAsk
  /\ Ask("cald") /\ pc' = "select" /\ UNCHANGED command_number

\* do_xl3_cmd throws away whatever is not its reply.
ReadReply ==
  /\ pc = "reply" /\ inbox # <<>>
  /\ inbox' = Tail(inbox)
  /\ pc' = IF Head(inbox).type = "reply" /\ Head(inbox).num = request.num % Modulus
           THEN IF multifc_buffer_full THEN "scan" ELSE "select"
           ELSE "reply"
  /\ UNCHANGED <<command_number, store, connected, broken, asked, noise, request, result,
                 buffer, commands, looked, cald, settled, faults>>

\* Bug: compares the number that a packet can carry, as ForMe does.
StoredForMe_wrapped(x) == x.num = request.num % Modulus
\* The number that is looked for in the buffer is not reduced.
StoredForMe(x) == x.num = request.num

\* Bug: the % 65536 is missing.
ForMe_unwrapped(x) == x.num = request.num
ForMe(x) == x.num = request.num % Modulus

InOrder(x) == x.cmd_num = Len(buffer)

\* The next of the results that earlier calls put aside; the buffer is emptied if the
\* last of them is taken.
ScanStored ==
  /\ pc = "scan" /\ looked < Len(multifc_buffer)
  /\ LET x == multifc_buffer[looked + 1]
     IN \/ /\ ~StoredForMe(x)
           /\ looked' = looked + 1
           /\ UNCHANGED <<store, buffer, pc, result>>
        \/ /\ StoredForMe(x) /\ InOrder(x)
           /\ looked' = looked + 1
           /\ buffer' = Append(buffer, x)
           /\ IF looked' = Len(multifc_buffer)
              THEN multifc_buffer' = <<>> /\ multifc_buffer_full' = FALSE
              ELSE UNCHANGED store
           /\ UNCHANGED <<pc, result>>
        \/ /\ StoredForMe(x) /\ ~InOrder(x)
           /\ Return(-2) /\ looked' = 0
           /\ UNCHANGED <<store, buffer>>
  /\ UNCHANGED <<command_number, connected, broken, xl3, request, commands, cald, settled,
                 faults>>

EndScan ==
  /\ pc = "scan" /\ looked >= Len(multifc_buffer)
  /\ pc' = "select" /\ looked' = 0
  /\ UNCHANGED <<command_number, store, connected, broken, xl3, request, result, buffer,
                 commands, cald, settled, faults>>

Receiving == pc \in {"select", "recv"} /\ inbox # <<>>

ReceiveAcks ==
  /\ Receiving /\ request.kind = "queue" /\ Head(inbox).type = "acks"
  /\ inbox' = Tail(inbox)
  /\ commands' = Head(inbox).results
  /\ pc' = "acks"
  /\ UNCHANGED <<command_number, store, connected, broken, asked, noise, request, result,
                 buffer, looked, cald, settled, faults>>

\* The next result of the packet; one with another number is put aside.
CollectAck ==
  /\ pc = "acks" /\ looked < Len(commands)
  /\ LET x == commands[looked + 1]
     IN \/ /\ ForMe(x) /\ InOrder(x)
           /\ buffer' = Append(buffer, x) /\ looked' = looked + 1
           /\ UNCHANGED <<store, pc, result, commands>>
        \/ /\ ForMe(x) /\ ~InOrder(x)
           /\ Return(-1) /\ looked' = 0 /\ commands' = <<>>
           /\ UNCHANGED <<store, buffer>>
        \/ /\ ~ForMe(x)
           /\ multifc_buffer' = Append(multifc_buffer, x) /\ multifc_buffer_full' = TRUE
           /\ looked' = looked + 1
           /\ UNCHANGED <<buffer, pc, result, commands>>
  /\ UNCHANGED <<command_number, connected, broken, xl3, request, cald, settled, faults>>

\* The loop over the results counts with the i of the loop over the crates, which goes
\* on behind howmany: if that is not past this crate, recv is called again without
\* a select.
NextCrate == IF looked < xl3num THEN "recv" ELSE "select"

\* Bug: waits for one more.
Complete_late == Len(buffer) > num_cmds
Complete == Len(buffer) = num_cmds

EndOfAcks ==
  /\ pc = "acks" /\ looked = Len(commands)
  /\ looked' = 0 /\ commands' = <<>>
  /\ IF Complete THEN Return(0) ELSE pc' = NextCrate /\ UNCHANGED result
  /\ UNCHANGED <<command_number, store, connected, broken, xl3, request, buffer, cald,
                 settled, faults>>

SlotOf(x) == x.cmd_num \div num_cmds

\* Bug: current_point goes on when another slot's points begin.
PlaceFor_going_on(p) == <<SlotOf(p.results[1]), current[2]>>

\* The points of a slot are counted from the first after those of another.
PlaceFor(p) ==
  LET slot == SlotOf(p.results[1])
  IN IF slot # current[1] THEN <<slot, 0>> ELSE current

Over(f, g) == [x \in DOMAIN f \cup DOMAIN g |-> IF x \in DOMAIN f THEN f[x] ELSE g[x]]

\* point_buf[0] is written with each point as well.
CollectPoints ==
  /\ Receiving /\ request.kind = "cald" /\ Head(inbox).type = "points"
  /\ inbox' = Tail(inbox)
  /\ LET points == Head(inbox).results
         slot   == PlaceFor(Head(inbox))[1]
         first  == PlaceFor(Head(inbox))[2]
         behind == first + Len(points)
         cells  == {slot} \X (first .. behind - 1)
         new    == [cell \in cells |-> points[cell[2] - first + 1]]
     IN /\ adc_buf' = Over(new, adc_buf)
        /\ point_buf' = Over([cell \in {<<0, 0>>} |-> points[Len(points)]],
                             Over(new, point_buf))
        /\ current' = <<slot, behind>>
  /\ pc' = "select"
  /\ UNCHANGED <<command_number, store, connected, broken, asked, noise, request, result,
                 buffer, commands, looked, settled, faults>>

\* Any end packet ends the test; point_count is returned.
FinishCald ==
  /\ Receiving /\ request.kind = "cald" /\ Head(inbox).type = "end"
  /\ inbox' = Tail(inbox)
  /\ Return(0)
  /\ UNCHANGED <<command_number, store, connected, broken, asked, noise, request, buffer,
                 commands, looked, cald, settled, faults>>

Wanted == IF request.kind = "queue" THEN {"acks"} ELSE {"points", "end"}

Ignore ==
  /\ Receiving /\ Head(inbox).type \notin Wanted
  /\ inbox' = Tail(inbox)
  /\ pc' = "select"
  /\ UNCHANGED <<command_number, store, connected, broken, asked, noise, request, result,
                 buffer, commands, looked, cald, settled, faults>>

\* Bug: only the reply is given up.
TimeOut_reply ==
  /\ pc = "reply" /\ inbox = <<>> /\ ~broken
  /\ Return(-3)
  /\ UNCHANGED <<command_number, store, connected, broken, xl3, request, buffer, commands,
                 looked, cald, settled, faults>>

\* select times out; a recv without one waits for ever.
TimeOut ==
  /\ pc \in {"reply", "select"} /\ inbox = <<>> /\ ~broken
  /\ Return(-3)
  /\ UNCHANGED <<command_number, store, connected, broken, xl3, request, buffer, commands,
                 looked, cald, settled, faults>>

\* recv returns 0.
Closed ==
  /\ pc \in {"reply", "select", "recv"} /\ inbox = <<>> /\ broken
  /\ connected' = FALSE /\ broken' = FALSE
  /\ Return(-1)
  /\ UNCHANGED <<command_number, store, xl3, request, buffer, commands, looked, cald, settled,
                 faults>>

XL3Step ==
  \/ Acknowledge
  \/ \E n \in 1 .. num_cmds : SendResults(n) \/ SendPoints(n)
  \/ EndCald
  \/ SayMore

CommandStep ==
  \/ ReadReply \/ ScanStored \/ EndScan
  \/ ReceiveAcks \/ CollectAck \/ EndOfAcks
  \/ CollectPoints \/ FinishCald \/ Ignore \/ TimeOut \/ Closed

Next == XL3Step \/ CommandStep \/ QueueCommands \/ StartCald \/ Break \/ Reconnect \/ ReadByMain

\* Threads are scheduled, and select ends when its time is over.
Spec == Init /\ [][Next]_vars /\ WF_vars(CommandStep)

-----------------------------------------------------------------------------
(* Properties                                                               *)

\* Each variable keeps to its type.
CTypeOK ==
  /\ request.id \in 0 .. MaxRequests /\ command_number \in 0 .. request.id
  /\ multifc_buffer_full = (multifc_buffer # <<>>)
  /\ {connected, broken, settled} \subseteq BOOLEAN
  /\ pc \in {"idle", "reply", "scan", "select", "acks", "recv"}
  /\ result \in {0, -1, -2, -3}
  /\ Len(buffer) <= num_cmds
  /\ DOMAIN adc_buf \subseteq DOMAIN point_buf
  /\ DOMAIN adc_buf \subseteq (0 .. slots - 1) \X Nat
  /\ current \in (0 .. slots - 1) \X Nat
  /\ noise \in 0 .. MaxNoise /\ faults \in 0 .. MaxFaults

\* Result n of the present command, as it comes in a packet.
OwnResult(n) == [num |-> request.num % Modulus, id |-> request.id, cmd_num |-> n]

Own(n) == [i \in 1 .. n |-> OwnResult(i - 1)]

\* At any time a queued read has been given the first results of its own packet, in
\* order, whatever arrived late from commands that had timed out or was put aside
\* by them, also after the packet number has gone round; and all of them if 0 was returned.
ResultsAreMine ==
  request.kind = "queue" =>
    /\ buffer = Own(Len(buffer))
    /\ pc = "idle" /\ result = 0 => Len(buffer) = num_cmds

\* Only results that nobody waits for any more are put aside for "the next time you
\* call this function" (xl3_rw.h:37).
StoredIsStale ==
  \A i \in DOMAIN multifc_buffer :
    multifc_buffer[i].id < request.id

\* A read is not given up while its results are all there: an error is returned only if
\* one of them is missing.
ErrorsAreReal ==
  pc = "idle" /\ request.kind = "queue" /\ result # 0 => Len(buffer) < num_cmds

Cells == (0 .. slots - 1) \X (0 .. num_cmds - 1)
PlaceOf(cell) == cell[1] * num_cmds + cell[2]
OwnPoints == [cell \in Cells |-> OwnResult(PlaceOf(cell))]

\* A CALD test that begins with nothing underway returns all of its own points, each
\* in its place, however they were packed; but point_buf[0] is the last one sent.
CaldComplete ==
  pc = "idle" /\ request.kind = "cald" /\ result = 0 /\ settled =>
    /\ adc_buf = OwnPoints
    /\ DOMAIN point_buf = Cells
    /\ \A cell \in Cells \ {<<0, 0>>} : point_buf[cell] = OwnPoints[cell]

\* Every command's wait ends, with its results or an error, unless it is in the recv
\* without a select.
WaitEnds == pc \notin {"idle", "recv"} ~> pc \in {"idle", "recv"}

-----------------------------------------------------------------------------
(* What makes these properties inductive                                    *)

Ack == [num : 0 .. Modulus - 1, id : Nat, cmd_num : Nat]
AskedRequest == [kind : {"queue", "cald"}, num : 0 .. Modulus - 1, id : Nat,
                 begun : BOOLEAN, sent : Nat]
XL3Packet == [type : {"reply", "acks", "points", "end", "noise"},
              num : 0 .. Modulus - 1, id : Nat, results : Seq(Ack)]

\* What the program and the XL3 hold, and when.
TrafficTyped ==
  /\ request \in [kind : {"none", "queue", "cald"}, num : Nat, id : Nat]
  /\ asked \in Seq(AskedRequest) /\ inbox \in Seq(XL3Packet)
  /\ {multifc_buffer, buffer, commands} \subseteq Seq(Ack)
  /\ looked \in Nat

\* A command has a request; only one that reads has a packet of results at hand.
PlacesMatch ==
  /\ pc \notin {"scan", "acks"} => looked = 0
  /\ pc = "acks" => looked <= Len(commands)
  /\ pc # "acks" => commands = <<>>
  /\ pc # "idle" => request.kind # "none"
  /\ pc \in {"reply", "scan", "acks", "recv"} => request.kind = "queue"

\* Results in order and no more than there are.
InSequence(s) ==
  \A j \in DOMAIN s : s[j].cmd_num = s[1].cmd_num + j - 1 /\ s[j].cmd_num < num_cmds

RequestSound(r) ==
  /\ r.kind = "queue" => r.sent < num_cmds
  /\ r.kind = "cald" => r.sent <= slots * num_cmds

PacketSound(p) ==
  /\ p.type = "acks" =>
       /\ InSequence(p.results)
       /\ \A x \in Packets(p.results) : x.num = p.num /\ x.id = p.id
  /\ p.type = "points" =>
       /\ p.results # <<>>
       /\ p.results[1].cmd_num < slots * num_cmds

\* The XL3 says what it was asked for.
XL3Sound ==
  /\ \A r \in Packets(asked) : RequestSound(r)
  /\ \A p \in Packets(inbox) : PacketSound(p)
  /\ InSequence(commands)

\* x belongs to the queued read that got the number n, before it goes round.  Every
\* request has an id, not every one a number, and less than Modulus of them are underway.
SentAs(n, x) ==
  /\ x.num = n % Modulus
  /\ x.id <= request.id /\ request.id - x.id < Modulus
  /\ command_number - n <= request.id - x.id + 1
  /\ request.kind = "queue" => IF x.id = request.id THEN n = request.num ELSE n < request.num

ResultTraffic ==
  {r \in Packets(asked) : r.kind = "queue"}
    \cup {p \in Packets(inbox) : p.type = "acks"} \cup Packets(commands)

TrafficNumbered ==
  /\ request.kind = "queue" => command_number = request.num + 1
  /\ \A x \in ResultTraffic : \E n \in 0 .. command_number - 1 : SentAs(n, x)

\* What has been put aside has a number that no later call looks for.
StoredNumbered ==
  \A x \in Packets(multifc_buffer) :
    x.num < command_number /\ (request.kind = "queue" => x.num < request.num)

\* Before its results come a read has none, and it stops as soon as it has them all.
StillMissing ==
  request.kind = "queue" =>
    /\ pc \in {"reply", "scan"} => buffer = <<>>
    /\ pc \in {"select", "recv"} => Len(buffer) < num_cmds
    /\ pc = "acks" =>
         \/ Len(buffer) < num_cmds
         \/ looked > 0 /\ Len(buffer) = commands[looked].cmd_num + 1

TrafficInv ==
  /\ CTypeOK /\ TrafficTyped /\ PlacesMatch /\ XL3Sound
  /\ TrafficNumbered /\ StoredNumbered /\ StillMissing
  /\ ResultsAreMine /\ StoredIsStale /\ ErrorsAreReal

\* The points a CALD test has been given, and how far it gets with the packets up to the
\* k-th of the inbox.
Given == PlaceOf(current)
Behind(p) == p.results[1].cmd_num + Len(p.results)
Reached(k) ==
  {Given} \cup {Behind(inbox[i]) : i \in {i \in 1 .. k : inbox[i].type = "points"}}
IsMax(n, S) == n \in S /\ \A m \in S : m <= n

\* The points underway follow one another without a gap, each packet stays within a slot,
\* and the end comes behind the last.
PointsUnderway ==
  /\ \A k \in DOMAIN inbox :
       /\ inbox[k].type = "points" =>
            LET first == inbox[k].results[1].cmd_num
            IN /\ IsMax(first, Reached(k - 1))
               /\ (first % num_cmds) + Len(inbox[k].results) <= num_cmds
               /\ \A j \in DOMAIN inbox[k].results :
                    inbox[k].results[j] = OwnResult(first + j - 1)
       /\ inbox[k].type = "end" => IsMax(slots * num_cmds, Reached(k - 1))
  /\ asked # <<>> =>
       /\ Len(asked) = 1 /\ asked[1].kind = "cald"
       /\ asked[1].num = request.num % Modulus /\ asked[1].id = request.id
       /\ IsMax(asked[1].sent, Reached(Len(inbox)))

\* The points that have been given are in their places.
PointsStored ==
  /\ current[2] <= num_cmds
  /\ adc_buf = [cell \in {cell \in Cells : PlaceOf(cell) < Given} |-> OwnResult(PlaceOf(cell))]
  /\ DOMAIN point_buf = DOMAIN adc_buf
  /\ \A cell \in DOMAIN adc_buf \ {<<0, 0>>} : point_buf[cell] = adc_buf[cell]

CaldInv ==
  request.kind = "cald" /\ settled =>
    CaldComplete /\ (pc # "idle" => PointsUnderway /\ PointsStored)

CollectorInv == TrafficInv /\ CaldInv
=============================================================================
