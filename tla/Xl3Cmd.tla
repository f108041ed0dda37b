--------------------------------- MODULE Xl3Cmd ---------------------------------
(***************************************************************************)
(* Requests to an XL3 and their replies: do_xl3_cmd and                    *)
(* do_xl3_cmd_no_response (xl3/xl3_rw.c), as one worker thread calls them. *)
(*                                                                         *)
(* The thread has locked the crates Mine and has put the descriptors they  *)
(* had when it began into thread_fdset.  A request carries the crate's     *)
(* command_number, which goes round after Modulus.  The XL3 answers in     *)
(* order and in its own time, says other things in between, and may        *)
(* connect again while the thread works: main then replaces the            *)
(* connection.  A packet is received whole.  While another thread prompts  *)
(* the controller (reading_from_tut), main reads the crates of this one as *)
(* well.                                                                   *)
(*                                                                         *)
(* Each request has an identity of its own, id, which the program does not *)
(* see; the properties use it.                                             *)
(***************************************************************************)
EXTENDS Integers, Sequences, FiniteSets

CONSTANTS
  NumCrates,
  Mine,          \* the crates of the thread
  Types,         \* packet types the thread sends
  NoReply,       \* those among them for which the XL3 sends no reply
  Modulus,       \* 65536
  Prompts,       \* whether a session or see_refl asks for input meanwhile
  NumFds,        \* bound: descriptors
  MaxRequests,   \* bound: requests of the thread
  MaxNoise,      \* bound: packets nobody asked for
  MaxFaults      \* bound: broken and new connections

Crates == 1 .. NumCrates
Fds    == 1 .. NumFds
NoFd   == -1

ASSUME Xl3ConstantsOK ==
  /\ NumCrates \in Nat \ {0} /\ NumFds \in Nat /\ NumFds > NumCrates
  /\ Mine \subseteq Crates /\ Mine # {}
  /\ NoReply \subseteq Types /\ {"noise", "none"} \cap Types = {}
  /\ Modulus \in Nat /\ Modulus > 1 /\ Prompts \in BOOLEAN
  /\ {MaxRequests, MaxNoise, MaxFaults} \subseteq Nat

\* MESSAGE_ID, PING_ID and the like.
Noise == [type |-> "noise", num |-> 0, id |-> 0]

VARIABLES
  command_number,  \* [Crates -> number of the next request]
  rw_xl3_fd,       \* [Crates -> descriptor]
  thread_fdset,
  open,            \* descriptors in use
  broken,          \* descriptors whose peer has gone
  inbox,           \* [Fds -> packets to be received]
  asked,           \* [Crates -> requests the XL3 has not answered]
  pc, request, readable_fdset, todo,  \* do_xl3_cmd
  result, packet,  \* what it last returned, and the packet it left
  overheard,       \* main has read a crate of the thread (history)
  issued, noise, faults  \* counters for the bounds

thread == <<pc, request, readable_fdset, todo, result, packet>>
vars == <<command_number, rw_xl3_fd, thread_fdset, open, broken, inbox, asked, thread,
          overheard, issued, noise, faults>>

NoRequest == [crate |-> 0, type |-> "none", num |-> 0, id |-> 0]

Init ==
  /\ command_number = [c \in Crates |-> 0]
  /\ rw_xl3_fd = [c \in Crates |-> c]
  /\ thread_fdset = Mine
  /\ open = Crates
  /\ broken = {}
  /\ inbox = [f \in Fds |-> <<>>]
  /\ asked = [c \in Crates |-> <<>>]
  /\ pc = "idle" /\ request = NoRequest /\ readable_fdset = {} /\ todo = {}
  /\ result = 0 /\ packet = Noise
  /\ overheard = FALSE
  /\ issued = 0 /\ noise = 0 /\ faults = 0

-----------------------------------------------------------------------------
(* The XL3s, and the main loop that accepts them                            *)

Connected(c) == rw_xl3_fd[c] \in open \ broken

\* What becomes of a connection when recv returns 0.
Close(c) ==
  /\ rw_xl3_fd' = [rw_xl3_fd EXCEPT ![c] = NoFd]
  /\ open' = open \ {rw_xl3_fd[c]} /\ broken' = broken \ {rw_xl3_fd[c]}
  /\ asked' = [asked EXCEPT ![c] = <<>>]
  /\ UNCHANGED inbox

AnswerRequest(c) ==
  /\ Connected(c) /\ asked[c] # <<>>
  /\ asked' = [asked EXCEPT ![c] = Tail(@)]
  /\ inbox' = IF Head(asked[c]).type \in NoReply THEN inbox
              ELSE [inbox EXCEPT ![rw_xl3_fd[c]] = Append(@, Head(asked[c]))]
  /\ UNCHANGED <<command_number, rw_xl3_fd, thread_fdset, open, broken, thread,
                 overheard, issued, noise, faults>>

SayMore(c) ==
  /\ Connected(c) /\ noise < MaxNoise
  /\ noise' = noise + 1
  /\ inbox' = [inbox EXCEPT ![rw_xl3_fd[c]] = Append(@, Noise)]
  /\ UNCHANGED <<command_number, rw_xl3_fd, thread_fdset, open, broken, asked, thread,
                 overheard, issued, faults>>

\* Main, or the thread that has locked it, reads a crate that is not ours, or main one that
\* is: read_xl3_packet takes a packet, or closes a connection whose peer has gone.
ReadByOthers(c) ==
  LET f == rw_xl3_fd[c] IN
  /\ c \in Mine => Prompts
  /\ \/ /\ f \in open /\ inbox[f] # <<>>
        /\ inbox' = [inbox EXCEPT ![f] = Tail(@)]
        /\ UNCHANGED <<rw_xl3_fd, open, broken, asked>>
     \/ /\ f \in broken /\ inbox[f] = <<>>
        /\ Close(c)
  /\ overheard' = (overheard \/ c \in Mine)
  /\ UNCHANGED <<command_number, thread_fdset, thread, issued, noise, faults>>

Break(c) ==
  /\ Connected(c) /\ faults < MaxFaults
  /\ faults' = faults + 1
  /\ broken' = broken \cup {rw_xl3_fd[c]}
  /\ asked' = [asked EXCEPT ![c] = <<>>]
  /\ UNCHANGED <<command_number, rw_xl3_fd, thread_fdset, open, inbox, thread, overheard,
                 issued, noise>>

\* accept_connection: the lowest free descriptor, then the old one is closed.
Reconnect(c) ==
  /\ faults < MaxFaults
  /\ faults' = faults + 1
  /\ \E f \in Fds \ open :
       /\ \A g \in Fds \ open : f <= g
       /\ rw_xl3_fd' = [rw_xl3_fd EXCEPT ![c] = f]
       /\ open' = (open \ {rw_xl3_fd[c]}) \cup {f}
       /\ broken' = broken \ {rw_xl3_fd[c]}
       /\ inbox' = [g \in Fds |-> IF g \in {f, rw_xl3_fd[c]} THEN <<>> ELSE inbox[g]]
  /\ asked' = [asked EXCEPT ![c] = <<>>]
  /\ UNCHANGED <<command_number, thread_fdset, thread, overheard, issued, noise>>

-----------------------------------------------------------------------------
(* do_xl3_cmd, do_xl3_cmd_no_response                                       *)

Return(code, p) ==
  /\ pc' = "idle" /\ request' = request
  /\ result' = code /\ packet' = p
  /\ readable_fdset' = {} /\ todo' = {}

Packets(s) == {s[k] : k \in DOMAIN s}
Unread(c) == Packets(asked[c])
               \cup IF rw_xl3_fd[c] \in open THEN Packets(inbox[rw_xl3_fd[c]]) ELSE {}

\* Bound: nothing of the crate stays unread while its numbers go round.
MayAsk(c) ==
  /\ pc = "idle" /\ c \in Mine /\ issued < MaxRequests
  /\ \A p \in Unread(c) \ {Noise} : issued + 1 - p.id < Modulus
  /\ issued' = issued + 1

\* Bug: the number does not go round in the packet.
NewRequestUnwrapped(c, t) ==
  [crate |-> c, type |-> t, num |-> command_number[c], id |-> issued + 1]

NewRequest(c, t) ==
  [crate |-> c, type |-> t, num |-> command_number[c] % Modulus, id |-> issued + 1]

\* rw_xl3_fd is -1, or write reports that the peer has gone.
FailToSend(c, t) ==
  /\ MayAsk(c)
  /\ rw_xl3_fd[c] \notin open \ broken
  /\ pc' = "idle" /\ request' = NewRequest(c, t)
  /\ result' = -1 /\ packet' = Noise
  /\ UNCHANGED <<command_number, rw_xl3_fd, thread_fdset, open, broken, inbox, asked,
                 readable_fdset, todo, overheard, noise, faults>>

\* Bug: the number is kept for the next request.
SendSameNumber(c, t) ==
  /\ MayAsk(c) /\ t \notin NoReply
  /\ rw_xl3_fd[c] \in open
  /\ asked' = [asked EXCEPT ![c] = Append(@, NewRequest(c, t))]
  /\ request' = NewRequest(c, t)
  /\ readable_fdset' = thread_fdset
  /\ pc' = "select"
  /\ UNCHANGED <<command_number, rw_xl3_fd, thread_fdset, open, broken, inbox, todo,
                 result, packet, overheard, noise, faults>>

Send(c, t) ==
  /\ MayAsk(c) /\ t \notin NoReply
  /\ rw_xl3_fd[c] \in open
  /\ asked' = IF rw_xl3_fd[c] \in broken THEN asked
              ELSE [asked EXCEPT ![c] = Append(@, NewRequest(c, t))]
  /\ command_number' = [command_number EXCEPT ![c] = @ + 1]
  /\ request' = NewRequest(c, t)
  /\ readable_fdset' = thread_fdset
  /\ pc' = "select"
  /\ UNCHANGED <<rw_xl3_fd, thread_fdset, open, broken, inbox, todo, result, packet,
                 overheard, noise, faults>>

\* do_xl3_cmd_no_response leaves command_number alone.
SendNoResponse(c, t) ==
  /\ MayAsk(c) /\ t \in NoReply
  /\ rw_xl3_fd[c] \in open
  /\ asked' = IF rw_xl3_fd[c] \in broken THEN asked
              ELSE [asked EXCEPT ![c] = Append(@, NewRequest(c, t))]
  /\ UNCHANGED <<command_number, rw_xl3_fd, thread_fdset, open, broken, inbox, thread,
                 overheard, noise, faults>>

Ready == {f \in readable_fdset : inbox[f] # <<>> \/ f \in broken}

\* select replaces the set by its readable part, and the loop uses it again.
Select ==
  /\ pc = "select"
  /\ readable_fdset \subseteq open
  /\ Ready # {}
  /\ readable_fdset' = Ready
  /\ todo' = Crates
  /\ pc' = "scan"
  /\ UNCHANGED <<command_number, rw_xl3_fd, thread_fdset, open, broken, inbox, asked,
                 request, result, packet, overheard, issued, noise, faults>>

SelectFails ==
  /\ pc = "select"
  /\ ~(readable_fdset \subseteq open)
  /\ Return(-2, Noise)
  /\ UNCHANGED <<command_number, rw_xl3_fd, thread_fdset, open, broken, inbox, asked,
                 overheard, issued, noise, faults>>

\* Bug: gives up when the first packet is not the reply.
TimeOutEarly ==
  /\ pc = "select"
  /\ readable_fdset \subseteq open
  /\ Return(-3, Noise)
  /\ UNCHANGED <<command_number, rw_xl3_fd, thread_fdset, open, broken, inbox, asked,
                 overheard, issued, noise, faults>>

\* Bug: it goes on waiting.
TimeOutRetry == pc = "select" /\ readable_fdset \subseteq open /\ Ready = {} /\ UNCHANGED vars

TimeOut ==
  /\ pc = "select"
  /\ readable_fdset \subseteq open
  /\ Ready = {}
  /\ Return(-3, Noise)
  /\ UNCHANGED <<command_number, rw_xl3_fd, thread_fdset, open, broken, inbox, asked,
                 overheard, issued, noise, faults>>

\* Bug: only the type is compared.
IsReplyOfType(i, p) == i = request.crate /\ p.type = request.type

IsReply(i, p) == i = request.crate /\ p.type = request.type /\ p.num = request.num

\* One crate of the loop over all XL3s, its descriptor readable or not.
ReceiveFrom(i) ==
  LET f == rw_xl3_fd[i] IN
  /\ pc = "scan"
  /\ i \in todo /\ \A j \in todo : i <= j
  /\ \/ /\ f \notin readable_fdset
        /\ todo' = todo \ {i}
        /\ UNCHANGED <<rw_xl3_fd, open, broken, inbox, asked, pc, request, readable_fdset,
                       result, packet>>
     \/ /\ f \in readable_fdset /\ inbox[f] # <<>>
        /\ inbox' = [inbox EXCEPT ![f] = Tail(@)]
        /\ IF IsReply(i, Head(inbox[f])) THEN Return(0, Head(inbox[f]))
           ELSE /\ todo' = todo \ {i}
                /\ UNCHANGED <<pc, request, readable_fdset, result, packet>>
        /\ UNCHANGED <<rw_xl3_fd, open, broken, asked>>
     \/ /\ f \in readable_fdset \cap broken /\ inbox[f] # <<>> /\ Head(inbox[f]) = Noise
        /\ inbox' = [inbox EXCEPT ![f] = Tail(@)]
        /\ Return(-1, Noise)  \* a ping: the pong cannot be written
        /\ UNCHANGED <<rw_xl3_fd, open, broken, asked>>
     \/ /\ f \in readable_fdset \cap broken /\ inbox[f] = <<>>
        /\ Close(i)
        /\ Return(-1, Noise)
  /\ UNCHANGED <<command_number, thread_fdset, overheard, issued, noise, faults>>

\* while (1)
LookAgain ==
  /\ pc = "scan" /\ todo = {}
  /\ pc' = "select"
  /\ UNCHANGED <<command_number, rw_xl3_fd, thread_fdset, open, broken, inbox, asked,
                 request, readable_fdset, todo, result, packet, overheard, issued, noise,
                 faults>>

Waiting == Select \/ SelectFails \/ TimeOut \/ (\E i \in Crates : ReceiveFrom(i)) \/ LookAgain

Ask == \E c \in Crates, t \in Types : FailToSend(c, t) \/ Send(c, t) \/ SendNoResponse(c, t)

Next ==
  \/ Ask \/ Waiting
  \/ \E c \in Crates :
       AnswerRequest(c) \/ SayMore(c) \/ ReadByOthers(c) \/ Break(c) \/ Reconnect(c)

\* The thread runs on; an XL3 says only so much unasked (MaxNoise).
Spec == Init /\ [][Next]_vars /\ WF_vars(Waiting)

-----------------------------------------------------------------------------
(* Properties                                                               *)

PacketType == Types \cup {"noise", "none"}

TypeOK ==
  /\ command_number \in [Crates -> 0 .. MaxRequests]
  /\ rw_xl3_fd \in [Crates -> Fds \cup {NoFd}]
  /\ thread_fdset \subseteq Fds /\ open \subseteq Fds /\ broken \subseteq open
  /\ \A f \in Fds : inbox[f] # <<>> => f \in open
  /\ pc \in {"idle", "select", "scan"}
  /\ request.crate \in Crates \cup {0} /\ request.type \in PacketType
  /\ request.num \in 0 .. Modulus - 1
  /\ readable_fdset \subseteq Fds /\ todo \subseteq Crates
  /\ result \in {0, -1, -2, -3} /\ packet.type \in PacketType

(* do_xl3_cmd returns 0 only with the reply to this very request: neither a *)
(* late reply to one that has timed out, nor the packet of another crate,   *)
(* nor anything from a connection that was replaced.                        *)
AnswerIsMine ==
  pc = "idle" /\ result = 0 /\ request # NoRequest =>
    /\ packet.id = request.id
    /\ packet.crate = request.crate

(* It reports a time-out only if the XL3 has not replied: the reply does    *)
(* not lie in the socket meanwhile.  (A connection that was replaced since  *)
(* the thread began is out of its sight.)                                   *)
TimesOutOnlyUnanswered ==
  [][LET f == rw_xl3_fd[request.crate] IN
     pc = "select" /\ pc' = "idle" /\ result' = -3 /\ f \in thread_fdset =>
       \A k \in DOMAIN inbox[f] : inbox[f][k].id # request.id]_vars

\* Inside recv, on a socket where there is nothing to receive.
BlockedInRecv ==
  /\ pc = "scan"
  /\ \E i \in todo :
       /\ \A j \in todo : i <= j
       /\ rw_xl3_fd[i] \in readable_fdset \ broken /\ inbox[rw_xl3_fd[i]] = <<>>

(* Every request comes to an end, unless recv waits without a limit: only   *)
(* when main has taken what select had found for the thread, or after two   *)
(* new connections, when a crate has a descriptor that select had found     *)
(* readable for another.                                                    *)
RequestEnds == pc # "idle" ~> pc = "idle" \/ ((overheard \/ faults > 1) /\ BlockedInRecv)

-----------------------------------------------------------------------------
(* What makes these properties inductive                                    *)

Packet == [crate : Crates, type : Types, num : 0 .. Modulus - 1, id : 1 .. MaxRequests]

PacketsTyped ==
  /\ inbox \in [Fds -> Seq(Packet \cup {Noise})]
  /\ asked \in [Crates -> Seq(Packet)]
  /\ request \in Packet \cup {NoRequest}
  /\ packet \in Packet \cup {Noise}
  /\ issued \in 0 .. MaxRequests
  /\ \A c \in Crates : command_number[c] <= issued

ConnectionsSeparate ==
  /\ \A c \in Crates : rw_xl3_fd[c] \in open \cup {NoFd}
  /\ \A c, d \in Crates : rw_xl3_fd[c] = rw_xl3_fd[d] /\ c # d => rw_xl3_fd[c] = NoFd

\* p was sent to crate c with the number n, before it goes round; every request since then
\* has an id of its own, and the number moved on at most once for each.
SentAs(n, c, p) ==
  /\ p.num = n % Modulus
  /\ command_number[c] - n <= issued - p.id + 1
  /\ pc # "idle" /\ request.crate = c /\ request.id # p.id => n + 1 < command_number[c]

Numbered(c, p) ==
  /\ p.crate = c /\ p.id <= issued
  /\ \E n \in 0 .. command_number[c] - 1 : SentAs(n, c, p)

RepliesNumbered ==
  \A c \in Crates : \A p \in Unread(c) \ {Noise} : p.type \notin NoReply => Numbered(c, p)

\* The request that the thread waits for is its last one, and the numbers of the crate's
\* unread packets have not gone round since.
RequestPending ==
  pc # "idle" =>
    /\ request \in Packet /\ request.type \notin NoReply
    /\ request.id = issued
    /\ command_number[request.crate] > 0
    /\ request.num = (command_number[request.crate] - 1) % Modulus
    /\ \A p \in Unread(request.crate) \ {Noise} : issued - p.id < Modulus

ReplyInv ==
  /\ TypeOK /\ PacketsTyped /\ ConnectionsSeparate
  /\ RepliesNumbered /\ RequestPending /\ AnswerIsMine

\* A thread with one crate waits on that crate's descriptor and on no other.
WatchesItsCrate ==
  /\ thread_fdset = Mine
  /\ pc # "idle" => readable_fdset = Mine
=============================================================================
