------------------------------ MODULE Xl3CmdProofs ------------------------------
(***************************************************************************)
(* Proofs about Xl3Cmd, for every modulus, every number of crates of the   *)
(* daemon and of the thread, and every number of requests, packets nobody  *)
(* asked for and faults.                                                   *)
(*                                                                         *)
(* ReplyInv is inductive.  It gives every unread packet of a crate the     *)
(* number its request had before it went round, below command_number and   *)
(* no further from it than requests have been made since.  Under the bound *)
(* of MayAsk the numbers of two different requests then differ by less     *)
(* than Modulus, and so do not look the same when they have gone round.    *)
(***************************************************************************)
EXTENDS Xl3Cmd, PacketLemmas

\* Packets(s) is what is in the queue s.
LEMMA PacketsIn == \A s : Packets(s) = In(s)
BY DEF Packets, In

\* A sequence gains one packet.
LEMMA AppendPackets ==
  ASSUME NEW S, NEW s \in Seq(S), NEW e \in S
  PROVE  /\ Append(s, e) \in Seq(S)
         /\ Append(s, e) # <<>>
         /\ Packets(Append(s, e)) = Packets(s) \cup {e}
BY AppendIn, PacketsIn

\* A sequence loses its first packet and no other.
LEMMA TailPackets ==
  ASSUME NEW S, NEW s \in Seq(S), s # <<>>
  PROVE  /\ Tail(s) \in Seq(S) /\ Packets(Tail(s)) \subseteq Packets(s)
         /\ Head(s) \in Packets(s) /\ Head(s) \in S
BY TailIn, PacketsIn

\* Nothing is in an empty inbox.
LEMMA EmptyPackets == Packets(<<>>) = {}
BY EmptyIn, PacketsIn

\* The packets of a sequence have its type.
LEMMA PacketsInSeq == ASSUME NEW S, NEW s \in Seq(S) PROVE Packets(s) \subseteq S
BY InTyped, PacketsIn

\* What the assumption on the constants says of numbers and types.
LEMMA Numbers ==
  /\ NoFd \notin Fds /\ Modulus \in Nat \ {0}
  /\ 0 \notin Crates /\ "noise" \notin Types /\ NoReply \subseteq Types
  /\ Mine \subseteq Crates /\ Crates \subseteq Fds
  /\ 0 \in 0 .. MaxRequests
BY Xl3ConstantsOK DEF NoFd, Fds, Crates

\* Unread packets are replies or noise.
LEMMA UnreadTyped ==
  ASSUME ReplyInv, NEW c \in Crates PROVE Unread(c) \subseteq Packet \cup {Noise}
<1>1. Packets(asked[c]) \subseteq Packet
  BY PacketsInSeq DEF ReplyInv, PacketsTyped
<1>2. CASE rw_xl3_fd[c] \in open
  <2>1. inbox[rw_xl3_fd[c]] \in Seq(Packet \cup {Noise})
    BY <1>2 DEF ReplyInv, PacketsTyped, TypeOK
  <2>2. QED
    BY <1>1, <1>2, <2>1, PacketsInSeq DEF Unread
<1>3. CASE rw_xl3_fd[c] \notin open
  BY <1>1, <1>3 DEF Unread
<1>4. QED
  BY <1>2, <1>3

\* A step that asks nothing keeps the numbers apart if nothing new but noise becomes unread.
LEMMA UnreadShrinks ==
  ASSUME ReplyInv, \A c \in Crates : Unread(c)' \subseteq Unread(c) \cup {Noise},
         UNCHANGED <<command_number, issued, request>>,
         pc' # "idle" => pc # "idle"
  PROVE  RepliesNumbered' /\ RequestPending'
<1>1. ASSUME NEW c \in Crates, NEW p \in Unread(c)' \ {Noise}, p.type \notin NoReply
      PROVE  Numbered(c, p)'
  <2>1. Numbered(c, p)
    BY <1>1 DEF ReplyInv, RepliesNumbered
  <2>2. QED
    BY <2>1 DEF Numbered, SentAs
<1>2. RequestPending'
  <2>1. CASE pc' = "idle"
    BY <2>1 DEF RequestPending
  <2>2. CASE pc' # "idle"
    <3>1. RequestPending /\ pc # "idle"
      BY <2>2 DEF ReplyInv
    <3>2. request.crate \in Crates
      BY <3>1 DEF RequestPending, Packet
    <3>3. QED
      BY <3>1, <3>2 DEF RequestPending
  <2>3. QED
    BY <2>1, <2>2
<1>3. QED
  BY <1>1, <1>2 DEF RepliesNumbered

\* A step of the world outside keeps ReplyInv if nothing new but noise becomes unread.
LEMMA ThreadStays ==
  ASSUME ReplyInv, UNCHANGED <<command_number, thread, issued, thread_fdset>>,
         rw_xl3_fd' \in [Crates -> Fds \cup {NoFd}],
         open' \subseteq Fds, broken' \subseteq open',
         \A f \in Fds : inbox'[f] # <<>> => f \in open',
         inbox' \in [Fds -> Seq(Packet \cup {Noise})],
         asked' \in [Crates -> Seq(Packet)],
         ConnectionsSeparate',
         \A c \in Crates : Unread(c)' \subseteq Unread(c) \cup {Noise}
  PROVE  ReplyInv'
<1>1. TypeOK' /\ PacketsTyped' /\ AnswerIsMine'
  BY DEF ReplyInv, TypeOK, PacketsTyped, AnswerIsMine, thread
<1>2. RepliesNumbered' /\ RequestPending'
  BY UnreadShrinks DEF thread
<1>3. QED
  BY <1>1, <1>2 DEF ReplyInv

\* An XL3 moves a request to the inbox as its reply.
LEMMA InvAnswerRequest ==
  ASSUME ReplyInv, NEW c \in Crates, AnswerRequest(c) PROVE ReplyInv'
<1> DEFINE f == rw_xl3_fd[c]
<1>1. /\ f \in open /\ f \in Fds /\ asked[c] \in Seq(Packet) /\ asked[c] # <<>>
      /\ asked' = [asked EXCEPT ![c] = Tail(asked[c])]
      /\ UNCHANGED <<command_number, rw_xl3_fd, thread_fdset, open, broken, thread, issued>>
      /\ \/ inbox' = inbox
         \/ inbox' = [inbox EXCEPT ![f] = Append(inbox[f], Head(asked[c]))]
  BY DEF AnswerRequest, Connected, ReplyInv, TypeOK, PacketsTyped
<1>2. /\ Tail(asked[c]) \in Seq(Packet) /\ Packets(Tail(asked[c])) \subseteq Packets(asked[c])
      /\ Head(asked[c]) \in Packets(asked[c]) /\ Head(asked[c]) \in Packet
  BY <1>1, TailPackets
<1>3. /\ inbox[f] \in Seq(Packet \cup {Noise})
      /\ inbox \in [Fds -> Seq(Packet \cup {Noise})] /\ asked \in [Crates -> Seq(Packet)]
  BY <1>1 DEF ReplyInv, PacketsTyped
<1>4. /\ Append(inbox[f], Head(asked[c])) \in Seq(Packet \cup {Noise})
      /\ Packets(Append(inbox[f], Head(asked[c]))) = Packets(inbox[f]) \cup {Head(asked[c])}
  BY <1>2, <1>3, AppendPackets
<1>5. /\ inbox' \in [Fds -> Seq(Packet \cup {Noise})]
      /\ \A g \in Fds \ {f} : inbox'[g] = inbox[g]
      /\ Packets(inbox'[f]) \subseteq Packets(inbox[f]) \cup Packets(asked[c])
  BY <1>1, <1>2, <1>3, <1>4
<1>6. /\ asked' \in [Crates -> Seq(Packet)]
      /\ \A d \in Crates \ {c} : asked'[d] = asked[d]
      /\ Packets(asked'[c]) \subseteq Packets(asked[c])
  BY <1>1, <1>2, <1>3
<1>7. ASSUME NEW d \in Crates PROVE Unread(d)' \subseteq Unread(d) \cup {Noise}
  <2>1. CASE d = c
    BY <1>1, <1>5, <1>6, <2>1 DEF Unread
  <2>2. CASE d # c
    <3>1. rw_xl3_fd[d] \in open => rw_xl3_fd[d] \in Fds \ {f}
      BY <1>1, <2>2, Numbers DEF ReplyInv, ConnectionsSeparate, TypeOK
    <3>2. QED
      BY <1>1, <1>5, <1>6, <2>2, <3>1 DEF Unread
  <2>3. QED
    BY <2>1, <2>2
<1>8. \A g \in Fds : inbox'[g] # <<>> => g \in open
  BY <1>1, <1>5 DEF ReplyInv, TypeOK
<1>9. ConnectionsSeparate' /\ rw_xl3_fd \in [Crates -> Fds \cup {NoFd}]
      /\ open \subseteq Fds /\ broken \subseteq open
  BY <1>1 DEF ReplyInv, ConnectionsSeparate, TypeOK
<1> HIDE DEF f
<1>10. QED
  BY <1>1, <1>5, <1>6, <1>7, <1>8, <1>9, ThreadStays

\* An XL3 says something unasked.
LEMMA InvSayMore ==
  ASSUME ReplyInv, NEW c \in Crates, SayMore(c) PROVE ReplyInv'
<1> DEFINE f == rw_xl3_fd[c]
<1>1. /\ f \in open /\ f \in Fds
      /\ inbox' = [inbox EXCEPT ![f] = Append(inbox[f], Noise)]
      /\ UNCHANGED <<command_number, rw_xl3_fd, thread_fdset, open, broken, asked, thread, issued>>
  BY DEF SayMore, Connected, ReplyInv, TypeOK
<1>2. /\ inbox[f] \in Seq(Packet \cup {Noise})
      /\ inbox \in [Fds -> Seq(Packet \cup {Noise})]
  BY <1>1 DEF ReplyInv, PacketsTyped
<1>3. /\ Append(inbox[f], Noise) \in Seq(Packet \cup {Noise})
      /\ Packets(Append(inbox[f], Noise)) = Packets(inbox[f]) \cup {Noise}
  BY <1>2, AppendPackets
<1>4. /\ inbox' \in [Fds -> Seq(Packet \cup {Noise})]
      /\ \A g \in Fds : Packets(inbox'[g]) \subseteq Packets(inbox[g]) \cup {Noise}
      /\ \A g \in Fds \ {f} : inbox'[g] = inbox[g]
  BY <1>1, <1>2, <1>3
<1>5. \A d \in Crates : Unread(d)' \subseteq Unread(d) \cup {Noise}
  BY <1>1, <1>4 DEF Unread, ReplyInv, TypeOK
<1>6. \A g \in Fds : inbox'[g] # <<>> => g \in open
  BY <1>1, <1>4 DEF ReplyInv, TypeOK
<1>7. /\ ConnectionsSeparate' /\ rw_xl3_fd \in [Crates -> Fds \cup {NoFd}]
      /\ open \subseteq Fds /\ broken \subseteq open /\ asked' \in [Crates -> Seq(Packet)]
  BY <1>1 DEF ReplyInv, ConnectionsSeparate, TypeOK, PacketsTyped
<1> HIDE DEF f
<1>8. QED
  BY <1>1, <1>4, <1>5, <1>6, <1>7, ThreadStays

\* A connection whose peer has gone is closed.
LEMMA CloseLosesOnly ==
  ASSUME ReplyInv, NEW c \in Crates, Close(c), rw_xl3_fd[c] \in broken,
         inbox[rw_xl3_fd[c]] = <<>>
  PROVE  /\ rw_xl3_fd' \in [Crates -> Fds \cup {NoFd}]
         /\ open' \subseteq Fds /\ broken' \subseteq open'
         /\ \A g \in Fds : inbox'[g] # <<>> => g \in open'
         /\ inbox' \in [Fds -> Seq(Packet \cup {Noise})]
         /\ asked' \in [Crates -> Seq(Packet)]
         /\ ConnectionsSeparate'
         /\ \A d \in Crates : Unread(d)' \subseteq Unread(d) \cup {Noise}
<1> USE DEF Close
<1>1. \A d \in Crates : rw_xl3_fd'[d] = IF d = c THEN NoFd ELSE rw_xl3_fd[d]
  BY DEF ReplyInv, TypeOK
<1>2. /\ asked' \in [Crates -> Seq(Packet)]
      /\ \A d \in Crates : Packets(asked'[d]) \subseteq Packets(asked[d])
  BY EmptyPackets DEF ReplyInv, PacketsTyped
<1>3. ConnectionsSeparate'
  BY <1>1 DEF ReplyInv, ConnectionsSeparate
<1>4. NoFd \notin open
  BY Numbers DEF ReplyInv, TypeOK
<1>5. \A d \in Crates : Unread(d)' \subseteq Unread(d) \cup {Noise}
  BY <1>1, <1>2, <1>4 DEF Unread
<1>6. /\ rw_xl3_fd' \in [Crates -> Fds \cup {NoFd}]
      /\ open' \subseteq Fds /\ broken' \subseteq open'
      /\ \A g \in Fds : inbox'[g] # <<>> => g \in open'
  BY DEF ReplyInv, TypeOK
<1>7. QED
  BY <1>2, <1>3, <1>5, <1>6 DEF ReplyInv, PacketsTyped

\* Another thread reads a crate that is not ours, or main one that is.
LEMMA InvReadByOthers ==
  ASSUME ReplyInv, NEW c \in Crates, ReadByOthers(c) PROVE ReplyInv'
<1> DEFINE f == rw_xl3_fd[c]
<1>1. UNCHANGED <<command_number, thread, issued, thread_fdset>>
  BY DEF ReadByOthers
<1>2. CASE f \in broken /\ inbox[f] = <<>> /\ Close(c)
  BY <1>1, <1>2, CloseLosesOnly, ThreadStays
<1>3. CASE /\ f \in open /\ inbox[f] # <<>>
           /\ inbox' = [inbox EXCEPT ![f] = Tail(inbox[f])]
           /\ UNCHANGED <<rw_xl3_fd, open, broken, asked>>
  <2>1. /\ f \in Fds /\ inbox[f] \in Seq(Packet \cup {Noise})
        /\ inbox \in [Fds -> Seq(Packet \cup {Noise})]
    BY <1>3 DEF ReplyInv, TypeOK, PacketsTyped
  <2>2. /\ Tail(inbox[f]) \in Seq(Packet \cup {Noise})
        /\ Packets(Tail(inbox[f])) \subseteq Packets(inbox[f])
    BY <1>3, <2>1, TailPackets
  <2>3. /\ inbox' \in [Fds -> Seq(Packet \cup {Noise})]
        /\ \A g \in Fds : Packets(inbox'[g]) \subseteq Packets(inbox[g])
        /\ \A g \in Fds : inbox'[g] # <<>> => g \in open
    BY <1>3, <2>1, <2>2 DEF ReplyInv, TypeOK
  <2>4. \A d \in Crates : Unread(d)' \subseteq Unread(d) \cup {Noise}
    BY <1>3, <2>3 DEF Unread, ReplyInv, TypeOK
  <2>5. /\ ConnectionsSeparate' /\ rw_xl3_fd' \in [Crates -> Fds \cup {NoFd}]
        /\ open' \subseteq Fds /\ broken' \subseteq open'
        /\ asked' \in [Crates -> Seq(Packet)]
    BY <1>3 DEF ReplyInv, ConnectionsSeparate, TypeOK, PacketsTyped
  <2>6. QED
    BY <1>1, <1>3, <2>3, <2>4, <2>5, ThreadStays
<1>4. QED
  BY <1>2, <1>3 DEF ReadByOthers

\* The peer goes; what it has not answered is lost.
LEMMA InvBreak == ASSUME ReplyInv, NEW c \in Crates, Break(c) PROVE ReplyInv'
<1>1. /\ rw_xl3_fd[c] \in open
      /\ broken' = broken \cup {rw_xl3_fd[c]}
      /\ asked' = [asked EXCEPT ![c] = <<>>]
      /\ UNCHANGED <<command_number, rw_xl3_fd, thread_fdset, open, inbox, thread, issued>>
  BY DEF Break, Connected
<1>2. /\ asked' \in [Crates -> Seq(Packet)]
      /\ \A d \in Crates : Packets(asked'[d]) \subseteq Packets(asked[d])
  BY <1>1, EmptyPackets DEF ReplyInv, PacketsTyped
<1>3. \A d \in Crates : Unread(d)' \subseteq Unread(d) \cup {Noise}
  BY <1>1, <1>2 DEF Unread
<1>4. /\ \A g \in Fds : inbox'[g] # <<>> => g \in open
      /\ ConnectionsSeparate' /\ rw_xl3_fd \in [Crates -> Fds \cup {NoFd}]
      /\ open \subseteq Fds /\ broken' \subseteq open
      /\ inbox' \in [Fds -> Seq(Packet \cup {Noise})]
  BY <1>1 DEF ReplyInv, ConnectionsSeparate, TypeOK, PacketsTyped
<1>5. QED
  BY <1>1, <1>2, <1>3, <1>4, ThreadStays

\* The main loop replaces a connection: the new inbox is empty, the old one is gone.
LEMMA InvReconnect == ASSUME ReplyInv, NEW c \in Crates, Reconnect(c) PROVE ReplyInv'
<1> DEFINE old == rw_xl3_fd[c]
<1>1. PICK f \in Fds \ open :
        /\ rw_xl3_fd' = [rw_xl3_fd EXCEPT ![c] = f]
        /\ open' = (open \ {old}) \cup {f}
        /\ broken' = broken \ {old}
        /\ inbox' = [g \in Fds |-> IF g \in {f, old} THEN <<>> ELSE inbox[g]]
        /\ asked' = [asked EXCEPT ![c] = <<>>]
        /\ UNCHANGED <<command_number, thread_fdset, thread, issued>>
  BY DEF Reconnect
<1>2. /\ asked' \in [Crates -> Seq(Packet)]
      /\ asked'[c] = <<>>
      /\ \A d \in Crates \ {c} : asked'[d] = asked[d]
      /\ inbox' \in [Fds -> Seq(Packet \cup {Noise})]
      /\ \A g \in Fds : inbox'[g] = IF g \in {f, old} THEN <<>> ELSE inbox[g]
  BY <1>1 DEF ReplyInv, PacketsTyped
<1>3. \A d \in Crates : rw_xl3_fd'[d] = IF d = c THEN f ELSE rw_xl3_fd[d]
  BY <1>1 DEF ReplyInv, TypeOK
<1>4. /\ rw_xl3_fd' \in [Crates -> Fds \cup {NoFd}]
      /\ open' \subseteq Fds /\ broken' \subseteq open'
      /\ \A g \in Fds : inbox'[g] # <<>> => g \in open'
  BY <1>1, <1>2 DEF ReplyInv, TypeOK
<1>5. \A d \in Crates \ {c} : rw_xl3_fd[d] \notin {f, old} \/ rw_xl3_fd[d] = NoFd
  BY <1>1, Numbers DEF ReplyInv, ConnectionsSeparate
<1>6. ConnectionsSeparate'
  BY <1>1, <1>3, <1>5 DEF ReplyInv, ConnectionsSeparate
<1>7. ASSUME NEW d \in Crates PROVE Unread(d)' \subseteq Unread(d) \cup {Noise}
  <2>1. CASE d = c
    BY <1>1, <1>2, <1>3, <2>1, EmptyPackets DEF Unread
  <2>2. CASE d # c
    <3>1. rw_xl3_fd'[d] = rw_xl3_fd[d] /\ asked'[d] = asked[d]
      BY <1>2, <1>3, <2>2
    <3>2. CASE rw_xl3_fd[d] = NoFd
      <4>1. NoFd \notin open'
        BY <1>4, Numbers
      <4>2. QED
        BY <3>1, <3>2, <4>1 DEF Unread
    <3>3. CASE rw_xl3_fd[d] # NoFd
      <4>1. rw_xl3_fd[d] \in open /\ rw_xl3_fd[d] \in Fds
        BY <3>3 DEF ReplyInv, ConnectionsSeparate, TypeOK
      <4>2. inbox'[rw_xl3_fd[d]] = inbox[rw_xl3_fd[d]]
        BY <1>2, <1>5, <2>2, <3>3, <4>1
      <4>3. QED
        BY <3>1, <4>1, <4>2 DEF Unread
    <3>4. QED
      BY <3>2, <3>3
  <2>3. QED
    BY <2>1, <2>2
<1> HIDE DEF old
<1>8. QED
  BY <1>1, <1>2, <1>4, <1>6, <1>7, ThreadStays

\* A new request is well typed, and command_number has not passed issued.
LEMMA NewRequestTyped ==
  ASSUME ReplyInv, NEW c \in Crates, NEW t \in Types, MayAsk(c)
  PROVE  /\ c \in Mine
         /\ issued + 1 \in 1 .. MaxRequests /\ issued + 1 \in 0 .. MaxRequests
         /\ command_number[c] \in 0 .. MaxRequests /\ command_number[c] + 1 <= issued + 1
         /\ NewRequest(c, t) \in Packet
<1>1. /\ command_number[c] \in 0 .. MaxRequests /\ issued \in 0 .. MaxRequests
      /\ command_number[c] <= issued /\ issued < MaxRequests /\ MaxRequests \in Nat
      /\ c \in Mine
  BY Xl3ConstantsOK DEF MayAsk, ReplyInv, TypeOK, PacketsTyped
<1>2. command_number[c] % Modulus \in 0 .. Modulus - 1
  <2>1. command_number[c] \in Nat
    BY <1>1
  <2>2. QED
    BY <2>1, Numbers, ModRange
<1>3. issued + 1 \in 1 .. MaxRequests /\ command_number[c] + 1 <= issued + 1
  BY <1>1
<1>4. NewRequest(c, t) \in Packet
  BY <1>2, <1>3 DEF NewRequest, Packet
<1>5. QED
  BY <1>1, <1>3, <1>4

\* What was numbered stays numbered when the thread makes one more request.
LEMMA OlderStay ==
  ASSUME ReplyInv, NEW d \in Crates, NEW p \in Packet, Numbered(d, p),
         pc = "idle", issued' = issued + 1,
         command_number'[d] \in {command_number[d], command_number[d] + 1},
         pc' # "idle" /\ request'.crate = d => command_number'[d] = command_number[d] + 1
  PROVE  Numbered(d, p)'
<1>1. PICK n \in 0 .. command_number[d] - 1 : SentAs(n, d, p)
  BY DEF Numbered
<1>2. /\ command_number[d] \in Nat /\ issued \in Nat /\ p.id \in Nat /\ n \in Nat
      /\ n < command_number[d]
  <2>1. command_number[d] \in Nat /\ issued \in Nat /\ p.id \in Nat
    BY Xl3ConstantsOK DEF ReplyInv, TypeOK, PacketsTyped, Packet
  <2>2. QED
    BY <1>1, <2>1
<1>3. \A x, i, k \in Nat : x - n <= i - k + 1 => x - n <= (i + 1) - k + 1 /\ (x + 1) - n <= (i + 1) - k + 1
  BY <1>2
<1>4. command_number'[d] - n <= issued' - p.id + 1
  BY <1>1, <1>2, <1>3 DEF SentAs
<1>5. n \in 0 .. command_number'[d] - 1
  BY <1>2
<1>6. pc' # "idle" /\ request'.crate = d /\ request'.id # p.id => n + 1 < command_number'[d]
  BY <1>2
<1>7. SentAs(n, d, p)'
  BY <1>1, <1>4, <1>6 DEF SentAs
<1>8. p.id <= issued' /\ p.crate = d
  BY <1>2 DEF Numbered
<1>9. QED
  BY <1>5, <1>7, <1>8 DEF Numbered

\* A request that is not sent.
LEMMA InvFailToSend ==
  ASSUME ReplyInv, NEW c \in Crates, NEW t \in Types, FailToSend(c, t) PROVE ReplyInv'
<1>1. /\ MayAsk(c) /\ pc = "idle" /\ pc' = "idle" /\ issued' = issued + 1
      /\ request' = NewRequest(c, t) /\ result' = -1 /\ packet' = Noise
      /\ UNCHANGED <<command_number, rw_xl3_fd, thread_fdset, open, broken, inbox, asked,
                     readable_fdset, todo>>
  BY DEF FailToSend, MayAsk
<1>2. NewRequest(c, t) \in Packet /\ issued' \in 0 .. MaxRequests
  BY <1>1, NewRequestTyped
<1>3. TypeOK'
  <2>1. /\ request'.crate \in Crates \cup {0} /\ request'.type \in PacketType
        /\ request'.num \in 0 .. Modulus - 1
    BY <1>1, <1>2 DEF Packet, PacketType
  <2>2. -1 \in {0, -1, -2, -3} /\ Noise.type \in PacketType
    BY DEF Noise, PacketType
  <2>3. QED
    BY <1>1, <2>1, <2>2 DEF ReplyInv, TypeOK
<1>4. PacketsTyped'
  <2>1. \A d \in Crates : command_number[d] <= issued + 1
    BY Xl3ConstantsOK DEF ReplyInv, TypeOK, PacketsTyped
  <2>2. QED
    BY <1>1, <1>2, <2>1 DEF ReplyInv, PacketsTyped
<1>5. ConnectionsSeparate' /\ RequestPending' /\ AnswerIsMine'
  BY <1>1 DEF ReplyInv, ConnectionsSeparate, RequestPending, AnswerIsMine
<1>6. RepliesNumbered'
  <2> SUFFICES ASSUME NEW d \in Crates, NEW p \in Unread(d)' \ {Noise}, p.type \notin NoReply
               PROVE  Numbered(d, p)'
    BY DEF RepliesNumbered
  <2>1. p \in Unread(d)
    BY <1>1 DEF Unread
  <2>2. p \in Packet /\ Numbered(d, p)
    BY <2>1, UnreadTyped DEF ReplyInv, RepliesNumbered
  <2>3. QED
    BY <1>1, <2>2, OlderStay
<1>7. QED
  BY <1>3, <1>4, <1>5, <1>6 DEF ReplyInv

\* A request without a reply, which leaves command_number alone.
LEMMA InvSendNoResponse ==
  ASSUME ReplyInv, NEW c \in Crates, NEW t \in Types, SendNoResponse(c, t) PROVE ReplyInv'
<1>1. /\ MayAsk(c) /\ pc = "idle" /\ pc' = "idle" /\ issued' = issued + 1 /\ t \in NoReply
      /\ asked' \in {asked, [asked EXCEPT ![c] = Append(asked[c], NewRequest(c, t))]}
      /\ UNCHANGED <<command_number, rw_xl3_fd, thread_fdset, open, broken, inbox, request,
                     result, packet, readable_fdset, todo>>
  BY DEF SendNoResponse, MayAsk, thread
<1>2. NewRequest(c, t) \in Packet /\ issued' \in 0 .. MaxRequests
  BY <1>1, NewRequestTyped
<1>3. /\ asked' \in [Crates -> Seq(Packet)]
      /\ \A d \in Crates : Packets(asked'[d]) \subseteq Packets(asked[d]) \cup {NewRequest(c, t)}
  <2>1. asked \in [Crates -> Seq(Packet)]
    BY DEF ReplyInv, PacketsTyped
  <2>2. /\ Append(asked[c], NewRequest(c, t)) \in Seq(Packet)
        /\ Packets(Append(asked[c], NewRequest(c, t))) = Packets(asked[c]) \cup {NewRequest(c, t)}
    BY <1>2, <2>1, AppendPackets
  <2>3. QED
    BY <1>1, <2>1, <2>2
<1>4. TypeOK'
  BY <1>1 DEF ReplyInv, TypeOK
<1>5. PacketsTyped'
  <2>1. \A d \in Crates : command_number[d] <= issued + 1
    BY Xl3ConstantsOK DEF ReplyInv, TypeOK, PacketsTyped
  <2>2. QED
    BY <1>1, <1>2, <1>3, <2>1 DEF ReplyInv, PacketsTyped
<1>6. ConnectionsSeparate' /\ RequestPending' /\ AnswerIsMine'
  BY <1>1 DEF ReplyInv, ConnectionsSeparate, RequestPending, AnswerIsMine
<1>7. RepliesNumbered'
  <2> SUFFICES ASSUME NEW d \in Crates, NEW p \in Unread(d)' \ {Noise}, p.type \notin NoReply
               PROVE  Numbered(d, p)'
    BY DEF RepliesNumbered
  <2>1. p # NewRequest(c, t)
    BY <1>1 DEF NewRequest
  <2>2. p \in Unread(d)
    BY <1>1, <1>3, <2>1 DEF Unread
  <2>3. p \in Packet /\ Numbered(d, p)
    BY <2>2, UnreadTyped DEF ReplyInv, RepliesNumbered
  <2>4. QED
    BY <1>1, <2>3, OlderStay
<1>8. QED
  BY <1>4, <1>5, <1>6, <1>7 DEF ReplyInv

\* do_xl3_cmd sends a request: its number is new among the unread packets.
LEMMA InvSend ==
  ASSUME ReplyInv, NEW c \in Crates, NEW t \in Types, Send(c, t) PROVE ReplyInv'
<1> DEFINE new == NewRequest(c, t)
<1>1. /\ MayAsk(c) /\ pc = "idle" /\ pc' = "select" /\ issued' = issued + 1 /\ t \notin NoReply
      /\ asked' \in {asked, [asked EXCEPT ![c] = Append(asked[c], new)]}
      /\ command_number' = [command_number EXCEPT ![c] = command_number[c] + 1]
      /\ request' = new
      /\ readable_fdset' = thread_fdset
      /\ UNCHANGED <<rw_xl3_fd, thread_fdset, open, broken, inbox, todo, result, packet>>
  BY DEF Send, MayAsk
<1>2. /\ new \in Packet /\ issued' \in 0 .. MaxRequests /\ c \in Mine
      /\ command_number[c] + 1 \in 0 .. MaxRequests /\ command_number[c] \in Nat
  <2>1. MaxRequests \in Nat
    BY Xl3ConstantsOK
  <2>2. QED
    BY <1>1, <2>1, NewRequestTyped
<1>3. /\ new.crate = c /\ new.type = t /\ new.num = command_number[c] % Modulus
      /\ new.id = issued + 1
  BY DEF NewRequest
<1>4. /\ command_number' \in [Crates -> 0 .. MaxRequests]
      /\ \A d \in Crates : command_number'[d] = IF d = c THEN command_number[d] + 1
                                                ELSE command_number[d]
  BY <1>1, <1>2 DEF ReplyInv, TypeOK
<1>5. /\ asked' \in [Crates -> Seq(Packet)]
      /\ \A d \in Crates \ {c} : asked'[d] = asked[d]
      /\ Packets(asked'[c]) \subseteq Packets(asked[c]) \cup {new}
  <2>1. asked \in [Crates -> Seq(Packet)]
    BY DEF ReplyInv, PacketsTyped
  <2>2. /\ Append(asked[c], new) \in Seq(Packet)
        /\ Packets(Append(asked[c], new)) = Packets(asked[c]) \cup {new}
    BY <1>2, <2>1, AppendPackets
  <2>3. QED
    BY <1>1, <2>1, <2>2
<1> HIDE DEF new
<1>6. TypeOK'
  <2>1. /\ request'.crate \in Crates \cup {0} /\ request'.type \in PacketType
        /\ request'.num \in 0 .. Modulus - 1
    BY <1>1, <1>2 DEF Packet, PacketType
  <2>2. QED
    BY <1>1, <1>4, <2>1 DEF ReplyInv, TypeOK
<1>7. PacketsTyped'
  <2>1. \A d \in Crates : command_number'[d] <= issued + 1
    <3>1. \A d \in Crates : command_number[d] \in Nat /\ command_number[d] <= issued
      BY Xl3ConstantsOK DEF ReplyInv, TypeOK, PacketsTyped
    <3>2. issued \in Nat
      BY Xl3ConstantsOK DEF ReplyInv, PacketsTyped
    <3>3. QED
      BY <1>4, <3>1, <3>2
  <2>2. QED
    BY <1>1, <1>2, <1>5, <2>1 DEF ReplyInv, PacketsTyped
<1>8. ConnectionsSeparate' /\ AnswerIsMine'
  BY <1>1 DEF ReplyInv, ConnectionsSeparate, AnswerIsMine
<1>9. \A d \in Crates : Unread(d)' \subseteq Unread(d) \cup IF d = c THEN {new} ELSE {}
  BY <1>1, <1>5 DEF Unread
<1>10. RepliesNumbered'
  <2> SUFFICES ASSUME NEW d \in Crates, NEW p \in Unread(d)' \ {Noise}, p.type \notin NoReply
               PROVE  Numbered(d, p)'
    BY DEF RepliesNumbered
  <2>1. CASE p \in Unread(d)
    <3>1. p \in Packet /\ Numbered(d, p)
      BY <2>1, UnreadTyped DEF ReplyInv, RepliesNumbered
    <3>2. QED
      BY <1>1, <1>3, <1>4, <3>1, OlderStay
  <2>2. CASE p = new /\ d = c
    <3>1. PICK n : n = command_number[c]
      OBVIOUS
    <3>2. /\ issued \in Nat /\ n \in 0 .. command_number'[c] - 1
          /\ command_number'[c] - n <= issued' - p.id + 1
      <4>1. issued \in Nat
        BY Xl3ConstantsOK DEF ReplyInv, PacketsTyped
      <4>2. QED
        BY <1>1, <1>2, <1>3, <1>4, <2>2, <3>1, <4>1
    <3>3. p.id <= issued' /\ p.crate = c /\ request'.id = p.id /\ p.num = n % Modulus
      BY <1>1, <1>3, <2>2, <3>1, <3>2
    <3>4. SentAs(n, c, p)'
      BY <3>2, <3>3 DEF SentAs
    <3>5. QED
      BY <2>2, <3>2, <3>3, <3>4 DEF Numbered
  <2>3. QED
    BY <1>9, <2>1, <2>2
<1>11. RequestPending'
  <2>1. command_number'[c] > 0 /\ new.num = (command_number'[c] - 1) % Modulus
    <3>1. command_number'[c] = command_number[c] + 1
      BY <1>4
    <3>2. command_number'[c] - 1 = command_number[c]
      BY <1>2, <3>1
    <3>3. QED
      BY <1>2, <1>3, <3>1, <3>2
  <2>2. \A p \in Unread(c)' \ {Noise} : issued' - p.id < Modulus
    <3> SUFFICES ASSUME NEW p \in Unread(c)' \ {Noise} PROVE issued' - p.id < Modulus
      OBVIOUS
    <3>1. issued \in Nat /\ issued' = issued + 1
      BY <1>1, Xl3ConstantsOK DEF ReplyInv, PacketsTyped
    <3>2. CASE p \in Unread(c)
      <4>1. issued + 1 - p.id < Modulus
        BY <1>1, <3>2 DEF MayAsk
      <4>2. p.id \in Nat
        BY <3>2, UnreadTyped, Xl3ConstantsOK DEF Packet
      <4>3. QED
        BY <3>1, <4>1, <4>2
    <3>3. CASE p = new
      <4>1. p.id = issued + 1
        BY <1>3, <3>3
      <4>2. issued' - p.id = 0
        BY <3>1, <4>1
      <4>3. QED
        BY <4>2, Numbers
    <3>4. QED
      BY <1>9, <3>2, <3>3
  <2>3. QED
    BY <1>1, <1>2, <1>3, <2>1, <2>2 DEF RequestPending
<1>12. QED
  BY <1>6, <1>7, <1>8, <1>10, <1>11 DEF ReplyInv

\* do_xl3_cmd's steps that neither send nor read keep ReplyInv.
LEMMA Quiet ==
  ASSUME ReplyInv, UNCHANGED <<command_number, rw_xl3_fd, thread_fdset, open, broken, inbox,
                               asked, request, issued>>,
         pc' \in {"idle", "select", "scan"}, pc' # "idle" => pc # "idle",
         readable_fdset' \subseteq Fds, todo' \subseteq Crates,
         result' \in {result, -2, -3}, result' # result => pc' = "idle",
         packet' \in {packet, Noise},
         pc' = "idle" => result' # 0
  PROVE  ReplyInv'
<1>1. TypeOK' /\ PacketsTyped'
  BY DEF ReplyInv, TypeOK, PacketsTyped, PacketType, Noise
<1>2. ConnectionsSeparate' /\ AnswerIsMine'
  BY DEF ReplyInv, ConnectionsSeparate, AnswerIsMine
<1>3. \A c \in Crates : Unread(c)' \subseteq Unread(c) \cup {Noise}
  BY DEF Unread
<1>4. RepliesNumbered' /\ RequestPending'
  BY <1>3, UnreadShrinks
<1>5. QED
  BY <1>1, <1>2, <1>4 DEF ReplyInv

\* select finds something to read.
LEMMA InvSelect == ASSUME ReplyInv, Select PROVE ReplyInv'
BY Quiet DEF Select, Ready, ReplyInv, TypeOK

\* The loop goes back to select.
LEMMA InvLookAgain == ASSUME ReplyInv, LookAgain PROVE ReplyInv'
BY Quiet DEF LookAgain, ReplyInv, TypeOK

\* select fails on a closed descriptor.
LEMMA InvSelectFails == ASSUME ReplyInv, SelectFails PROVE ReplyInv'
BY Quiet DEF SelectFails, Return

\* select runs out of time.
LEMMA InvTimeOut == ASSUME ReplyInv, TimeOut PROVE ReplyInv'
BY Quiet DEF TimeOut, Return

\* The heart of the matter: an unread packet of the asked crate that has the type and the
\* number of the request is the reply to it.
LEMMA ReplyIsMine ==
  ASSUME ReplyInv, pc # "idle", NEW p \in Unread(request.crate),
         IsReply(request.crate, p)
  PROVE  p.id = request.id /\ p.crate = request.crate
<1>1. /\ request \in Packet /\ request.type \notin NoReply /\ request.crate \in Crates
      /\ request.id = issued /\ command_number[request.crate] > 0
      /\ request.num = (command_number[request.crate] - 1) % Modulus
      /\ \A q \in Unread(request.crate) \ {Noise} : issued - q.id < Modulus
  BY DEF ReplyInv, RequestPending, Packet
<1>2. p.type = request.type /\ p.num = request.num /\ p # Noise
  BY <1>1, Numbers DEF IsReply, Packet, Noise
<1>3. Numbered(request.crate, p) /\ p \in Packet
  BY <1>1, <1>2, UnreadTyped DEF ReplyInv, RepliesNumbered
<1>4. PICK n \in 0 .. command_number[request.crate] - 1 : SentAs(n, request.crate, p)
  BY <1>3 DEF Numbered
<1>5. SUFFICES ASSUME p.id # request.id PROVE FALSE
  BY <1>3 DEF Numbered
<1>6. PICK m : m = command_number[request.crate]
  OBVIOUS
<1>7. m \in Nat /\ n \in Nat /\ n + 1 < m /\ m - 1 \in Nat /\ issued \in Nat /\ p.id \in Nat
  <2>1. m \in Nat /\ issued \in Nat /\ p.id \in Nat
    BY <1>1, <1>3, <1>6, Xl3ConstantsOK DEF ReplyInv, TypeOK, PacketsTyped, Packet
  <2>2. n \in Nat /\ m > 0 /\ n + 1 < m
    BY <1>1, <1>4, <1>5, <1>6, <2>1 DEF SentAs
  <2>3. QED
    BY <2>1, <2>2
<1>8. n < m - 1 /\ (m - 1) - n < Modulus
  <2>1. m - n <= issued - p.id + 1
    BY <1>4, <1>6 DEF SentAs
  <2>2. issued - p.id < Modulus
    BY <1>1, <1>2
  <2>3. QED
    BY <1>7, <2>1, <2>2, Numbers
<1>9. (m - 1) % Modulus # n % Modulus
  BY <1>7, <1>8, ModDiffers, Numbers
<1>10. QED
  BY <1>1, <1>2, <1>4, <1>6, <1>9 DEF SentAs

\* One crate of the loop over all XL3s is read, skipped or closed.
LEMMA InvReceiveFrom ==
  ASSUME ReplyInv, NEW i \in Crates, ReceiveFrom(i) PROVE ReplyInv'
<1> DEFINE f == rw_xl3_fd[i]
<1>1. pc = "scan" /\ UNCHANGED <<command_number, thread_fdset, issued>>
  BY DEF ReceiveFrom
<1>2. CASE /\ todo' = todo \ {i}
           /\ UNCHANGED <<rw_xl3_fd, open, broken, inbox, asked, pc, request, readable_fdset,
                          result, packet>>
  BY <1>1, <1>2, Quiet DEF ReplyInv, TypeOK
<1>3. CASE /\ f \in readable_fdset /\ inbox[f] # <<>>
           /\ inbox' = [inbox EXCEPT ![f] = Tail(inbox[f])]
           /\ \/ IsReply(i, Head(inbox[f])) /\ Return(0, Head(inbox[f]))
              \/ Return(-1, Noise)
              \/ /\ todo' = todo \ {i}
                 /\ UNCHANGED <<pc, request, readable_fdset, result, packet>>
           /\ UNCHANGED <<rw_xl3_fd, open, broken, asked>>
  <2>1. /\ f \in Fds /\ f \in open /\ inbox[f] \in Seq(Packet \cup {Noise})
        /\ inbox \in [Fds -> Seq(Packet \cup {Noise})]
    BY <1>3 DEF ReplyInv, TypeOK, PacketsTyped
  <2>2. /\ Tail(inbox[f]) \in Seq(Packet \cup {Noise})
        /\ Packets(Tail(inbox[f])) \subseteq Packets(inbox[f])
        /\ Head(inbox[f]) \in Packets(inbox[f]) /\ Head(inbox[f]) \in Packet \cup {Noise}
    BY <1>3, <2>1, TailPackets
  <2>3. /\ inbox' \in [Fds -> Seq(Packet \cup {Noise})]
        /\ \A g \in Fds : Packets(inbox'[g]) \subseteq Packets(inbox[g])
        /\ \A g \in Fds : inbox'[g] # <<>> => g \in open
    BY <1>3, <2>1, <2>2 DEF ReplyInv, TypeOK
  <2>4. \A c \in Crates : Unread(c)' \subseteq Unread(c) \cup {Noise}
    BY <1>3, <2>3 DEF Unread, ReplyInv, TypeOK
  <2>5. request' = request /\ (pc' # "idle" => pc # "idle")
    BY <1>1, <1>3 DEF Return
  <2>6. RepliesNumbered' /\ RequestPending'
    BY <1>1, <2>4, <2>5, UnreadShrinks
  <2>7. /\ pc' \in {"idle", "select", "scan"} /\ result' \in {0, -1, -2, -3}
        /\ readable_fdset' \subseteq Fds /\ todo' \subseteq Crates
        /\ packet' \in Packet \cup {Noise}
    <3>1. /\ result \in {0, -1, -2, -3} /\ readable_fdset \subseteq Fds
          /\ todo \subseteq Crates /\ packet \in Packet \cup {Noise}
      BY DEF ReplyInv, TypeOK, PacketsTyped
    <3>2. QED
      BY <1>1, <1>3, <2>2, <3>1 DEF Return
  <2>8. packet'.type \in PacketType
    BY <2>7 DEF Packet, Noise, PacketType
  <2>9. TypeOK'
    BY <1>1, <1>3, <2>3, <2>5, <2>7, <2>8 DEF ReplyInv, TypeOK
  <2>10. PacketsTyped' /\ ConnectionsSeparate'
    BY <1>1, <1>3, <2>3, <2>5, <2>7 DEF ReplyInv, PacketsTyped, ConnectionsSeparate
  <2>11. AnswerIsMine'
    <3>1. CASE IsReply(i, Head(inbox[f])) /\ Return(0, Head(inbox[f]))
      <4>1. i = request.crate /\ Head(inbox[f]) \in Unread(i)
        BY <2>1, <2>2, <3>1 DEF IsReply, Unread
      <4>2. /\ Head(inbox[f]).id = request.id
            /\ Head(inbox[f]).crate = request.crate
        BY <1>1, <3>1, <4>1, ReplyIsMine
      <4>3. QED
        BY <3>1, <4>2 DEF Return, AnswerIsMine
    <3>2. CASE Return(-1, Noise)
      BY <3>2 DEF Return, AnswerIsMine
    <3>3. CASE UNCHANGED <<pc, request, readable_fdset, result, packet>>
      BY <3>3 DEF ReplyInv, AnswerIsMine
    <3>4. QED
      BY <1>3, <3>1, <3>2, <3>3
  <2>12. QED
    BY <2>6, <2>9, <2>10, <2>11 DEF ReplyInv
<1>4. CASE /\ f \in readable_fdset \cap broken /\ inbox[f] = <<>>
           /\ Close(i)
           /\ Return(-1, Noise)
  <2>1. /\ rw_xl3_fd' \in [Crates -> Fds \cup {NoFd}]
        /\ open' \subseteq Fds /\ broken' \subseteq open'
        /\ \A g \in Fds : inbox'[g] # <<>> => g \in open'
        /\ inbox' \in [Fds -> Seq(Packet \cup {Noise})]
        /\ asked' \in [Crates -> Seq(Packet)]
        /\ ConnectionsSeparate'
        /\ \A d \in Crates : Unread(d)' \subseteq Unread(d) \cup {Noise}
    BY <1>4, CloseLosesOnly
  <2>2. RepliesNumbered' /\ RequestPending'
    BY <1>1, <1>4, <2>1, UnreadShrinks DEF Return
  <2>3. TypeOK'
    <3>1. Noise.type \in PacketType
      BY DEF Noise, PacketType
    <3>2. QED
      BY <1>1, <1>4, <2>1, <3>1 DEF ReplyInv, TypeOK, Return
  <2>4. PacketsTyped'
    BY <1>1, <1>4, <2>1 DEF ReplyInv, PacketsTyped, Return
  <2>5. AnswerIsMine'
    BY <1>4 DEF AnswerIsMine, Return
  <2>6. QED
    BY <2>1, <2>2, <2>3, <2>4, <2>5 DEF ReplyInv
<1>5. QED
  BY <1>2, <1>3, <1>4 DEF ReceiveFrom

\* ReplyInv holds when the thread begins.
LEMMA InitReplyInv == Init => ReplyInv
<1> SUFFICES ASSUME Init PROVE ReplyInv
  OBVIOUS
<1> USE DEF Init
<1>1. TypeOK
  BY Numbers, Xl3ConstantsOK DEF TypeOK, NoRequest, Noise, PacketType
<1>2. PacketsTyped
  BY Numbers DEF PacketsTyped
<1>3. ConnectionsSeparate /\ RequestPending /\ AnswerIsMine
  BY DEF ConnectionsSeparate, RequestPending, AnswerIsMine
<1>4. RepliesNumbered
  BY EmptyPackets, Numbers DEF RepliesNumbered, Unread
<1>5. QED
  BY <1>1, <1>2, <1>3, <1>4 DEF ReplyInv

\* Every step keeps ReplyInv.
LEMMA StepReplyInv == ReplyInv /\ [Next]_vars => ReplyInv'
<1> SUFFICES ASSUME ReplyInv, [Next]_vars PROVE ReplyInv'
  OBVIOUS
<1>1. CASE UNCHANGED vars
  BY <1>1, ThreadStays DEF vars, ReplyInv, TypeOK, PacketsTyped, ConnectionsSeparate, Unread
<1>2. CASE Ask
  BY <1>2, InvFailToSend, InvSend, InvSendNoResponse DEF Ask
<1>3. CASE Waiting
  BY <1>3, InvSelect, InvSelectFails, InvTimeOut, InvReceiveFrom, InvLookAgain DEF Waiting
<1>4. ASSUME NEW c \in Crates,
             AnswerRequest(c) \/ SayMore(c) \/ ReadByOthers(c) \/ Break(c) \/ Reconnect(c)
      PROVE  ReplyInv'
  BY <1>4, InvAnswerRequest, InvSayMore, InvReadByOthers, InvBreak, InvReconnect
<1>5. QED
  BY <1>1, <1>2, <1>3, <1>4 DEF Next

\* The inductive invariant of requests and replies holds in every state.
THEOREM ReplyInvHolds == Spec => []ReplyInv
BY InitReplyInv, StepReplyInv, PTL DEF Spec

\* Variables keep their types, no inbox of a closed descriptor holds a packet.
THEOREM Xl3TypeCorrect == Spec => []TypeOK
<1>1. ReplyInv => TypeOK
  BY DEF ReplyInv
<1>2. QED
  BY <1>1, ReplyInvHolds, PTL

\* do_xl3_cmd returns 0 only with the reply to this very request, of this very crate: not
\* with a late reply to one that timed out, nor with another crate's packet, although the
\* number has 16 bits and connections are replaced.
THEOREM AnswersAreMine == Spec => []AnswerIsMine
<1>1. ReplyInv => AnswerIsMine
  BY DEF ReplyInv
<1>2. QED
  BY <1>1, ReplyInvHolds, PTL

\* A thread with one crate has its descriptor in thread_fdset.
LEMMA InitWatches ==
  ASSUME NEW c \in Crates, Mine = {c} PROVE Init => WatchesItsCrate
BY DEF Init, WatchesItsCrate

\* select cannot drop the only descriptor: it returns with it or not at all.
LEMMA StepWatches ==
  ASSUME NEW c \in Crates, Mine = {c}, WatchesItsCrate, [Next]_vars PROVE WatchesItsCrate'
<1> USE DEF WatchesItsCrate
<1>1. thread_fdset' = thread_fdset
  BY DEF Next, Ask, Waiting, FailToSend, Send, SendNoResponse, Select, SelectFails, TimeOut,
         ReceiveFrom, LookAgain, AnswerRequest, SayMore, ReadByOthers, Break, Reconnect, vars
<1>2. \/ pc' = "idle"
      \/ pc # "idle" /\ readable_fdset' = readable_fdset
      \/ readable_fdset' = thread_fdset
      \/ Select
  BY DEF Next, Ask, Waiting, FailToSend, Send, SendNoResponse, SelectFails, TimeOut,
         ReceiveFrom, Return, LookAgain, AnswerRequest, SayMore, ReadByOthers, Break,
         Reconnect, vars, thread
<1>3. CASE Select
  BY <1>1, <1>3 DEF Select, Ready
<1>4. QED
  BY <1>1, <1>2, <1>3

\* A thread that has locked one crate (all but run_pedestals, trigger_scan and find_noise)
\* does not report a time-out while its reply lies in the socket.  Xl3Cmd_several shows that
\* a thread with two crates may.
THEOREM OneCrateTimesOutUnanswered ==
  ASSUME NEW c \in Crates, Mine = {c} PROVE Spec => TimesOutOnlyUnanswered
<1>1. Init => WatchesItsCrate
  BY InitWatches
<1>2. WatchesItsCrate /\ [Next]_vars => WatchesItsCrate'
  BY StepWatches
<1>3. ASSUME WatchesItsCrate, [Next]_vars
      PROVE  [LET f == rw_xl3_fd[request.crate] IN
              pc = "select" /\ pc' = "idle" /\ result' = -3 /\ f \in thread_fdset =>
                \A k \in DOMAIN inbox[f] : inbox[f][k].id # request.id]_vars
  <2> DEFINE f == rw_xl3_fd[request.crate]
  <2> SUFFICES ASSUME pc = "select", pc' = "idle", result' = -3, f \in thread_fdset
               PROVE  \A k \in DOMAIN inbox[f] : inbox[f][k].id # request.id
    OBVIOUS
  <2>1. TimeOut
    BY <1>3 DEF Next, Ask, Waiting, FailToSend, Send, SendNoResponse, MayAsk, Select, SelectFails,
       ReceiveFrom, Return, LookAgain, AnswerRequest, SayMore, ReadByOthers, Break, Reconnect,
       vars, thread
  <2>2. f \in readable_fdset /\ Ready = {}
    BY <1>3, <2>1 DEF TimeOut, WatchesItsCrate
  <2>3. inbox[f] = <<>>
    BY <2>2 DEF Ready
  <2>4. QED
    BY <2>3
<1>4. QED
  BY <1>1, <1>2, <1>3, PTL DEF Spec, TimesOutOnlyUnanswered
=============================================================================
