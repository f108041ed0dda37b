----------------------------- MODULE CollectorProofs -----------------------------
(***************************************************************************)
(* Proofs about Collector, for every crate number, every number of results *)
(* and slots, every modulus and every number of commands, packets nobody   *)
(* asked for and broken connections.                                       *)
(*                                                                         *)
(* TrafficInv is inductive.  It says of every result underway which      *)
(* number its request got before it went round (SentAs); under the bound   *)
(* of MayAsk only the results of the present request then look like its    *)
(* own.  Of the results put aside it says that their numbers are below the *)
(* one that is looked for, so that none is ever taken.                     *)
(***************************************************************************)
EXTENDS Collector, PacketLemmas

\* What the assumption on the constants says.
LEMMA Constants ==
  /\ xl3num \in Nat /\ MaxRequests \in Nat /\ MaxNoise \in Nat /\ MaxFaults \in Nat
  /\ num_cmds \in Nat \ {0} /\ slots \in Nat \ {0} /\ Modulus \in Nat \ {0}
BY CollectorConstantsOK

\* Packets(s) is what is in the queue s.
LEMMA PacketsIn == \A s : Packets(s) = In(s)
BY DEF Packets, In

LEMMA AppendPackets ==
  ASSUME NEW S, NEW s \in Seq(S), NEW e \in S
  PROVE  /\ Append(s, e) \in Seq(S) /\ Append(s, e) # <<>>
         /\ Packets(Append(s, e)) = Packets(s) \cup {e}
BY AppendIn, PacketsIn

LEMMA TailPackets ==
  ASSUME NEW S, NEW s \in Seq(S), s # <<>>
  PROVE  /\ Tail(s) \in Seq(S) /\ Packets(Tail(s)) \subseteq Packets(s)
         /\ Head(s) \in Packets(s) /\ Head(s) \in S
BY TailIn, PacketsIn

LEMMA ExceptPackets ==
  ASSUME NEW S, NEW s \in Seq(S), NEW e \in S, NEW k \in DOMAIN s
  PROVE  /\ [s EXCEPT ![k] = e] \in Seq(S)
         /\ Packets([s EXCEPT ![k] = e]) \subseteq Packets(s) \cup {e}
BY ExceptIn, PacketsIn

LEMMA EmptyPackets == Packets(<<>>) = {}
BY EmptyIn, PacketsIn

LEMMA PacketsTyped == ASSUME NEW S, NEW s \in Seq(S) PROVE Packets(s) \subseteq S
BY InTyped, PacketsIn

-----------------------------------------------------------------------------
(* What a step leaves alone                                                 *)

\* The XL3 and the connection change nothing of the command.
LEMMA CommandAside ==
  ASSUME TrafficInv, UNCHANGED <<command_number, store, command>>,
         {connected', broken'} \subseteq BOOLEAN,
         noise' \in 0 .. MaxNoise, faults' \in 0 .. MaxFaults
  PROVE  /\ CTypeOK' /\ PlacesMatch' /\ StoredNumbered' /\ StillMissing'
         /\ ResultsAreMine' /\ StoredIsStale' /\ ErrorsAreReal'
<1>1. /\ UNCHANGED <<command_number, multifc_buffer, multifc_buffer_full, pc, request, result,
                     buffer, commands, looked, settled, point_buf, adc_buf, current>>
  BY DEF store, command, cald
<1>2. CTypeOK' /\ PlacesMatch'
  BY <1>1 DEF TrafficInv, CTypeOK, PlacesMatch
<1>3. StoredNumbered' /\ StillMissing'
  BY <1>1 DEF TrafficInv, StoredNumbered, StillMissing
<1>4. ResultsAreMine' /\ StoredIsStale' /\ ErrorsAreReal'
  BY <1>1 DEF TrafficInv, ResultsAreMine, StoredIsStale, ErrorsAreReal, Own, OwnResult
<1>5. QED
  BY <1>2, <1>3, <1>4

\* While nothing is asked, what is underway keeps its numbers.
LEMMA NumbersStay ==
  ASSUME TrafficInv, UNCHANGED <<command_number, request>>,
         \A x \in ResultTraffic' : \E y \in ResultTraffic : x.num = y.num /\ x.id = y.id
  PROVE  TrafficNumbered'
<1>1. ASSUME NEW x \in ResultTraffic'
      PROVE  \E n \in 0 .. command_number - 1 : SentAs(n, x)'
  <2>1. PICK y \in ResultTraffic : x.num = y.num /\ x.id = y.id
    OBVIOUS
  <2>2. PICK n \in 0 .. command_number - 1 : SentAs(n, y)
    BY DEF TrafficInv, TrafficNumbered
  <2>3. SentAs(n, x)'
    BY <2>1, <2>2 DEF SentAs
  <2>4. QED
    BY <2>3
<1>2. QED
  BY <1>1 DEF TrafficInv, TrafficNumbered

\* The XL3 speaks of a request that it has.
LEMMA SaysWhatWasAsked ==
  ASSUME TrafficInv, UNCHANGED <<command_number, request, store, buffer, commands, looked>>,
         NEW p \in XL3Packet, PacketSound(p), inbox' = Append(inbox, p),
         p.type = "acks" =>
           \E r \in Packets(asked) : r.kind = "queue" /\ r.num = p.num /\ r.id = p.id,
         asked' \in Seq(AskedRequest),
         \A q \in Packets(asked') :
           RequestSound(q) /\ \E r \in Packets(asked) : r.kind = q.kind /\ r.num = q.num /\ r.id = q.id
  PROVE  TrafficTyped' /\ XL3Sound' /\ TrafficNumbered'
<1>1. inbox' \in Seq(XL3Packet) /\ Packets(inbox') = Packets(inbox) \cup {p}
  BY AppendPackets DEF TrafficInv, TrafficTyped
<1>2. TrafficTyped'
  BY <1>1 DEF TrafficInv, TrafficTyped, store
<1>3. XL3Sound'
  BY <1>1 DEF TrafficInv, XL3Sound, PacketSound, RequestSound, InSequence
<1>4. ASSUME NEW x \in ResultTraffic'
      PROVE  \E y \in ResultTraffic : x.num = y.num /\ x.id = y.id
  <2>1. CASE x \in Packets(asked') /\ x.kind = "queue"
    BY <2>1 DEF ResultTraffic
  <2>2. CASE x \in Packets(inbox) /\ x.type = "acks"
    BY <2>2 DEF ResultTraffic
  <2>3. CASE x = p /\ x.type = "acks"
    BY <2>3 DEF ResultTraffic
  <2>4. CASE x \in Packets(commands)
    BY <2>4 DEF ResultTraffic
  <2>5. QED
    BY <1>1, <1>4, <2>1, <2>2, <2>3, <2>4 DEF ResultTraffic
<1>5. TrafficNumbered'
  BY <1>4, NumbersStay
<1>6. QED
  BY <1>2, <1>3, <1>5

\* Something underway is received, thrown away or lost.
LEMMA LessUnderway ==
  ASSUME TrafficInv, UNCHANGED <<command_number, request, store, commands>>,
         buffer' \in Seq(Ack), looked' \in Nat,
         inbox' \in Seq(XL3Packet), Packets(inbox') \subseteq Packets(inbox),
         asked' \in Seq(AskedRequest), Packets(asked') \subseteq Packets(asked)
  PROVE  TrafficTyped' /\ XL3Sound' /\ TrafficNumbered'
<1>1. TrafficTyped'
  BY DEF TrafficInv, TrafficTyped, store
<1>2. XL3Sound'
  BY DEF TrafficInv, XL3Sound, PacketSound, RequestSound, InSequence
<1>3. ResultTraffic' \subseteq ResultTraffic
  BY DEF ResultTraffic
<1>4. TrafficNumbered'
  BY <1>3, NumbersStay
<1>5. QED
  BY <1>1, <1>2, <1>4

-----------------------------------------------------------------------------
(* The XL3 and the connection                                               *)

\* Results first .. last of a request are of its number, in order.
LEMMA ResultsSound ==
  ASSUME NEW r \in AskedRequest, NEW n \in Nat \ {0},
         NEW s, s = Results(r, r.sent, r.sent + n - 1)
  PROVE  /\ s \in Seq(Ack) /\ s # <<>> /\ DOMAIN s = 1 .. n
         /\ \A j \in DOMAIN s : s[j] = [num |-> r.num, id |-> r.id, cmd_num |-> r.sent + j - 1]
<1>1. r.sent \in Nat /\ r.num \in 0 .. Modulus - 1 /\ r.id \in Nat
  BY DEF AskedRequest
<1>2. (r.sent + n - 1) - r.sent + 1 = n
  BY <1>1
<1>3. s = [j \in 1 .. n |-> [num |-> r.num, id |-> r.id, cmd_num |-> r.sent + j - 1]]
  BY <1>2 DEF Results
<1>4. \A j \in 1 .. n : [num |-> r.num, id |-> r.id, cmd_num |-> r.sent + j - 1] \in Ack
  BY <1>1 DEF Ack
<1>5. s \in Seq(Ack) /\ Len(s) = n /\ DOMAIN s = 1 .. n
  BY <1>3, <1>4
<1>6. QED
  BY <1>3, <1>5

\* A request that has got on is still a request.
LEMMA GetsOn ==
  ASSUME NEW r \in AskedRequest, NEW n \in Nat, NEW q, q = [r EXCEPT !.sent = @ + n]
  PROVE  /\ q \in AskedRequest
         /\ q.kind = r.kind /\ q.num = r.num /\ q.id = r.id /\ q.sent = r.sent + n
<1>1. r.sent \in Nat /\ r.sent + n \in Nat
  BY DEF AskedRequest
<1>2. PICK m \in Nat : m = r.sent + n
  BY <1>1
<1>3. q = [r EXCEPT !.sent = m]
  BY <1>2
<1>4. q \in AskedRequest /\ q.kind = r.kind /\ q.num = r.num /\ q.id = r.id /\ q.sent = m
  BY <1>3 DEF AskedRequest
<1>5. QED
  BY <1>2, <1>4

\* What is left of the queue once its head has got on.
LEMMA HeadGoesOn ==
  ASSUME TrafficInv, asked # <<>>, NEW q \in AskedRequest,
         q.kind = Head(asked).kind, q.num = Head(asked).num, q.id = Head(asked).id,
         RequestSound(q), asked' \in {Tail(asked), [asked EXCEPT ![1] = q]}
  PROVE  /\ asked' \in Seq(AskedRequest)
         /\ \A p \in Packets(asked') :
              RequestSound(p) /\ \E r \in Packets(asked) : r.kind = p.kind /\ r.num = p.num /\ r.id = p.id
<1>1. asked \in Seq(AskedRequest) /\ \A r \in Packets(asked) : RequestSound(r)
  BY DEF TrafficInv, TrafficTyped, XL3Sound
<1>2. Head(asked) \in Packets(asked)
  BY <1>1, TailPackets
<1>3. CASE asked' = Tail(asked)
  BY <1>1, <1>3, TailPackets
<1>4. CASE asked' = [asked EXCEPT ![1] = q]
  <2>1. 1 \in DOMAIN asked
    BY <1>1
  <2>2. asked' \in Seq(AskedRequest) /\ Packets(asked') \subseteq Packets(asked) \cup {q}
    BY <1>1, <1>4, <2>1, ExceptPackets
  <2>3. QED
    BY <1>1, <1>2, <2>2
<1>5. QED
  BY <1>3, <1>4

LEMMA AcknowledgeKeeps == TrafficInv /\ Acknowledge => TrafficInv'
<1> SUFFICES ASSUME TrafficInv, Acknowledge PROVE TrafficInv'
  OBVIOUS
<1>1. PICK k \in DOMAIN asked :
        /\ asked[k].kind = "queue"
        /\ inbox' = Append(inbox, Packet("reply", asked[k], <<>>))
        /\ asked' = [asked EXCEPT ![k].begun = TRUE]
        /\ UNCHANGED <<command_number, store, connected, broken, noise, command, faults>>
  BY DEF Acknowledge, Say
<1>2. asked \in Seq(AskedRequest) /\ asked[k] \in AskedRequest /\ asked[k] \in Packets(asked)
  BY <1>1 DEF TrafficInv, TrafficTyped, Packets
<1>3. PICK q \in AskedRequest : q = [asked[k] EXCEPT !.begun = TRUE]
  BY <1>2 DEF AskedRequest
<1>4. /\ q.kind = asked[k].kind /\ q.num = asked[k].num /\ q.id = asked[k].id
      /\ q.sent = asked[k].sent
  BY <1>2, <1>3 DEF AskedRequest
<1>5. asked' = [asked EXCEPT ![k] = q]
  BY <1>1, <1>3
<1>6. RequestSound(q) /\ \A r \in Packets(asked) : RequestSound(r)
  BY <1>2, <1>4 DEF TrafficInv, XL3Sound, RequestSound
<1>7. /\ asked' \in Seq(AskedRequest)
      /\ \A p \in Packets(asked') :
           RequestSound(p) /\ \E r \in Packets(asked) : r.kind = p.kind /\ r.num = p.num /\ r.id = p.id
  <2>1. asked' \in Seq(AskedRequest) /\ Packets(asked') \subseteq Packets(asked) \cup {q}
    BY <1>2, <1>5, ExceptPackets
  <2>2. QED
    BY <1>2, <1>4, <1>6, <2>1
<1>8. PICK p : p = Packet("reply", asked[k], <<>>)
  OBVIOUS
<1>9. p \in XL3Packet /\ PacketSound(p) /\ p.type # "acks"
  BY <1>2, <1>8 DEF Packet, XL3Packet, AskedRequest, PacketSound
<1>10. TrafficTyped' /\ XL3Sound' /\ TrafficNumbered'
  BY <1>1, <1>7, <1>8, <1>9, SaysWhatWasAsked DEF command
<1>11. QED
  BY <1>1, <1>10, CommandAside DEF TrafficInv, CTypeOK

LEMMA SendResultsKeeps ==
  ASSUME TrafficInv, NEW n \in 1 .. num_cmds, SendResults(n) PROVE TrafficInv'
<1>1. PICK r : r = Head(asked)
  OBVIOUS
<1>2. /\ asked # <<>> /\ r.kind = "queue" /\ r.sent + n <= num_cmds
      /\ inbox' = Append(inbox, Packet("acks", r, Results(r, r.sent, r.sent + n - 1)))
      /\ asked' = IF r.sent + n = num_cmds THEN Tail(asked) ELSE [asked EXCEPT ![1].sent = @ + n]
      /\ UNCHANGED <<command_number, store, connected, broken, noise, command, faults>>
  BY <1>1 DEF SendResults, Say
<1>3. asked \in Seq(AskedRequest) /\ r \in AskedRequest /\ r \in Packets(asked) /\ r = asked[1]
  BY <1>1, <1>2, TailPackets DEF TrafficInv, TrafficTyped
<1>4. n \in Nat \ {0} /\ r.sent \in Nat /\ num_cmds \in Nat
  BY <1>3, Constants DEF AskedRequest
<1>5. /\ asked' \in Seq(AskedRequest)
      /\ \A p \in Packets(asked') :
           RequestSound(p) /\ \E q \in Packets(asked) : q.kind = p.kind /\ q.num = p.num /\ q.id = p.id
  <2>1. CASE r.sent + n = num_cmds
    <3>1. RequestSound(r)
      BY <1>3 DEF TrafficInv, XL3Sound
    <3>2. QED
      BY <1>1, <1>2, <1>3, <2>1, <3>1, HeadGoesOn
  <2>2. CASE r.sent + n # num_cmds
    <3>1. PICK q : q = [r EXCEPT !.sent = @ + n]
      OBVIOUS
    <3>2. /\ q \in AskedRequest
          /\ q.kind = r.kind /\ q.num = r.num /\ q.id = r.id /\ q.sent = r.sent + n
      BY <1>3, <1>4, <3>1, GetsOn
    <3>3. asked' = [asked EXCEPT ![1] = q]
      BY <1>2, <1>3, <2>2, <3>1
    <3>4. RequestSound(q)
      BY <1>2, <1>4, <2>2, <3>2 DEF RequestSound
    <3>5. QED
      BY <1>1, <1>2, <3>2, <3>3, <3>4, HeadGoesOn
  <2>3. QED
    BY <2>1, <2>2
<1>6. PICK s : s = Results(r, r.sent, r.sent + n - 1)
  OBVIOUS
<1>7. /\ s \in Seq(Ack) /\ s # <<>> /\ DOMAIN s = 1 .. n
      /\ \A j \in DOMAIN s : s[j] = [num |-> r.num, id |-> r.id, cmd_num |-> r.sent + j - 1]
  <2>1. r \in AskedRequest /\ n \in Nat \ {0}
    BY <1>3, <1>4
  <2>2. QED
    BY <2>1, <1>6, ResultsSound
<1>8. InSequence(s) /\ \A x \in Packets(s) : x.num = r.num /\ x.id = r.id
  <2>1. 1 \in DOMAIN s /\ s[1].cmd_num = r.sent
    BY <1>4, <1>7
  <2>2. ASSUME NEW j \in DOMAIN s PROVE s[j].cmd_num = s[1].cmd_num + j - 1 /\ s[j].cmd_num < num_cmds
    BY <1>2, <1>4, <1>7, <2>1
  <2>3. QED
    BY <1>7, <2>2 DEF InSequence, Packets
<1>9. PICK p : p = Packet("acks", r, s)
  OBVIOUS
<1>10. p.type = "acks" /\ p.num = r.num /\ p.id = r.id /\ p.results = s
  BY <1>9 DEF Packet
<1>11. p \in XL3Packet
  BY <1>3, <1>7, <1>9 DEF Packet, XL3Packet, AskedRequest
<1>12. PacketSound(p)
  BY <1>8, <1>10 DEF PacketSound
<1>13. TrafficTyped' /\ XL3Sound' /\ TrafficNumbered'
  BY <1>2, <1>3, <1>5, <1>6, <1>9, <1>10, <1>11, <1>12, SaysWhatWasAsked DEF command
<1>14. QED
  BY <1>2, <1>13, CommandAside DEF TrafficInv, CTypeOK

\* A packet of points that stays within its slot stays within the slots.
LEMMA WithinSlot ==
  ASSUME NEW m \in Nat \ {0}, NEW k \in Nat \ {0}, NEW a \in Nat, NEW n \in Nat,
         a < k * m, (a % m) + n <= m
  PROVE  a + n <= k * m
<1>1. PICK q \in Int : q = a \div m
  OBVIOUS
<1>2. PICK r \in Int : r = a % m
  OBVIOUS
<1>3. a = m * q + r /\ r >= 0 /\ r + n <= m
  BY <1>1, <1>2, DivMod, ModRange
<1>4. q < k
  <2>1. \A i, j, l \in Int : i >= 0 /\ j >= l => i * j >= i * l
    OBVIOUS
  <2>2. CASE q >= k
    <3>1. m * q >= m * k
      BY <2>1, <2>2
    <3>2. m * k = k * m
      OBVIOUS
    <3>3. QED
      BY <1>3, <3>1, <3>2
  <2>3. QED
    BY <2>2
<1>5. m * q + m <= k * m
  <2>1. \A i, j, l \in Int : i >= 0 /\ j >= l => i * j >= i * l
    OBVIOUS
  <2>2. m * k >= m * (q + 1)
    BY <1>4, <2>1
  <2>3. m * (q + 1) = m * q + m /\ m * k = k * m
    OBVIOUS
  <2>4. QED
    BY <2>2, <2>3
<1>6. QED
  <2>1. PICK c \in Int : c = m * q
    OBVIOUS
  <2>2. PICK d \in Int : d = k * m
    OBVIOUS
  <2>3. a = c + r /\ c + m <= d
    BY <1>3, <1>5, <2>1, <2>2
  <2>4. a + n <= d
    BY <1>3, <2>3
  <2>5. QED
    BY <2>2, <2>4

LEMMA SendPointsKeeps ==
  ASSUME TrafficInv, NEW n \in 1 .. num_cmds, SendPoints(n) PROVE TrafficInv'
<1>1. PICK r : r = Head(asked)
  OBVIOUS
<1>2. /\ asked # <<>> /\ r.kind = "cald" /\ r.sent < slots * num_cmds
      /\ (r.sent % num_cmds) + n <= num_cmds
      /\ inbox' = Append(inbox, Packet("points", r, Results(r, r.sent, r.sent + n - 1)))
      /\ asked' = [asked EXCEPT ![1].sent = @ + n]
      /\ UNCHANGED <<command_number, store, connected, broken, noise, command, faults>>
  BY <1>1 DEF SendPoints, Say
<1>3. asked \in Seq(AskedRequest) /\ r \in AskedRequest /\ r \in Packets(asked) /\ r = asked[1]
  BY <1>1, <1>2, TailPackets DEF TrafficInv, TrafficTyped
<1>4. n \in Nat \ {0} /\ r.sent \in Nat /\ num_cmds \in Nat \ {0} /\ slots \in Nat \ {0}
  BY <1>3, Constants DEF AskedRequest
<1>5. PICK q : q = [r EXCEPT !.sent = @ + n]
  OBVIOUS
<1>6. /\ q \in AskedRequest
      /\ q.kind = r.kind /\ q.num = r.num /\ q.id = r.id /\ q.sent = r.sent + n
  BY <1>3, <1>4, <1>5, GetsOn
<1>7. q.sent <= slots * num_cmds
  BY <1>2, <1>4, <1>6, WithinSlot
<1>8. asked' = [asked EXCEPT ![1] = q] /\ RequestSound(q)
  BY <1>2, <1>3, <1>5, <1>6, <1>7 DEF RequestSound
<1>9. /\ asked' \in Seq(AskedRequest)
      /\ \A p \in Packets(asked') :
           RequestSound(p) /\ \E t \in Packets(asked) : t.kind = p.kind /\ t.num = p.num /\ t.id = p.id
  BY <1>1, <1>2, <1>6, <1>8, HeadGoesOn
<1>10. PICK s : s = Results(r, r.sent, r.sent + n - 1)
  OBVIOUS
<1>11. s \in Seq(Ack) /\ s # <<>> /\ s[1].cmd_num = r.sent
  <2>1. /\ s \in Seq(Ack) /\ s # <<>> /\ DOMAIN s = 1 .. n
        /\ \A j \in DOMAIN s : s[j] = [num |-> r.num, id |-> r.id, cmd_num |-> r.sent + j - 1]
    <3>1. r \in AskedRequest /\ n \in Nat \ {0}
      BY <1>3, <1>4
    <3>2. QED
      BY <1>10, <3>1, ResultsSound
  <2>2. 1 \in DOMAIN s
    BY <1>4, <2>1
  <2>3. QED
    BY <1>4, <2>1, <2>2
<1>12. PICK p : p = Packet("points", r, s)
  OBVIOUS
<1>13. p.type = "points" /\ p.results = s
  BY <1>12 DEF Packet
<1>14. p \in XL3Packet
  BY <1>3, <1>11, <1>12 DEF Packet, XL3Packet, AskedRequest
<1>15. PacketSound(p)
  BY <1>2, <1>11, <1>13 DEF PacketSound
<1>16. TrafficTyped' /\ XL3Sound' /\ TrafficNumbered'
  BY <1>2, <1>9, <1>10, <1>12, <1>13, <1>14, <1>15, SaysWhatWasAsked DEF command
<1>17. QED
  BY <1>2, <1>16, CommandAside DEF TrafficInv, CTypeOK

LEMMA EndCaldKeeps == TrafficInv /\ EndCald => TrafficInv'
<1> SUFFICES ASSUME TrafficInv, EndCald PROVE TrafficInv'
  OBVIOUS
<1>1. PICK r : r = Head(asked)
  OBVIOUS
<1>2. /\ asked # <<>> /\ inbox' = Append(inbox, Packet("end", r, <<>>)) /\ asked' = Tail(asked)
      /\ UNCHANGED <<command_number, store, connected, broken, noise, command, faults>>
  BY <1>1 DEF EndCald, Say
<1>3. r \in AskedRequest /\ RequestSound(r)
  BY <1>1, <1>2, TailPackets DEF TrafficInv, TrafficTyped, XL3Sound
<1>4. /\ asked' \in Seq(AskedRequest)
      /\ \A p \in Packets(asked') :
           RequestSound(p) /\ \E q \in Packets(asked) : q.kind = p.kind /\ q.num = p.num /\ q.id = p.id
  BY <1>1, <1>2, <1>3, HeadGoesOn
<1>5. PICK p : p = Packet("end", r, <<>>)
  OBVIOUS
<1>6. p \in XL3Packet /\ PacketSound(p) /\ p.type # "acks"
  BY <1>3, <1>5 DEF Packet, XL3Packet, AskedRequest, PacketSound
<1>7. TrafficTyped' /\ XL3Sound' /\ TrafficNumbered'
  BY <1>2, <1>4, <1>5, <1>6, SaysWhatWasAsked DEF command
<1>8. QED
  BY <1>2, <1>7, CommandAside DEF TrafficInv, CTypeOK

LEMMA SayMoreKeeps == TrafficInv /\ SayMore => TrafficInv'
<1> SUFFICES ASSUME TrafficInv, SayMore PROVE TrafficInv'
  OBVIOUS
<1>1. /\ inbox' = Append(inbox, Noise) /\ noise < MaxNoise /\ noise' = noise + 1
      /\ UNCHANGED <<command_number, store, connected, broken, asked, command, faults>>
  BY DEF SayMore, Say
<1>2. Noise \in XL3Packet /\ PacketSound(Noise) /\ Noise.type # "acks"
  BY Constants DEF Noise, Packet, NoRequest, XL3Packet, PacketSound
<1>3. asked' \in Seq(AskedRequest) /\ \A q \in Packets(asked') : RequestSound(q) /\ q \in Packets(asked)
  BY <1>1 DEF TrafficInv, TrafficTyped, XL3Sound
<1>4. TrafficTyped' /\ XL3Sound' /\ TrafficNumbered'
  BY <1>1, <1>2, <1>3, SaysWhatWasAsked DEF command
<1>5. noise' \in 0 .. MaxNoise
  BY <1>1, Constants DEF TrafficInv, CTypeOK
<1>6. QED
  BY <1>1, <1>4, <1>5, CommandAside DEF TrafficInv, CTypeOK

LEMMA BreakKeeps == TrafficInv /\ Break => TrafficInv'
<1> SUFFICES ASSUME TrafficInv, Break PROVE TrafficInv'
  OBVIOUS
<1>1. asked' \in Seq(AskedRequest) /\ Packets(asked') \subseteq Packets(asked)
  BY EmptyPackets DEF Break
<1>2. TrafficTyped' /\ XL3Sound' /\ TrafficNumbered'
  BY <1>1, LessUnderway DEF Break, command, TrafficInv, TrafficTyped
<1>3. faults' \in 0 .. MaxFaults /\ {connected', broken'} \subseteq BOOLEAN
  BY Constants DEF Break, TrafficInv, CTypeOK
<1>4. QED
  BY <1>2, <1>3, CommandAside DEF TrafficInv, CTypeOK, Break

LEMMA ReconnectKeeps == TrafficInv /\ Reconnect => TrafficInv'
<1> SUFFICES ASSUME TrafficInv, Reconnect PROVE TrafficInv'
  OBVIOUS
<1>1. inbox' \in Seq(XL3Packet) /\ Packets(inbox') \subseteq Packets(inbox)
  BY EmptyPackets DEF Reconnect
<1>2. TrafficTyped' /\ XL3Sound' /\ TrafficNumbered'
  BY <1>1, LessUnderway DEF Reconnect, command, TrafficInv, TrafficTyped
<1>3. QED
  BY <1>2, CommandAside DEF TrafficInv, CTypeOK, Reconnect

LEMMA ReadByMainKeeps == TrafficInv /\ ReadByMain => TrafficInv'
<1> SUFFICES ASSUME TrafficInv, ReadByMain PROVE TrafficInv'
  OBVIOUS
<1>1. inbox' \in Seq(XL3Packet) /\ Packets(inbox') \subseteq Packets(inbox)
  BY TailPackets DEF ReadByMain, TrafficInv, TrafficTyped
<1>2. TrafficTyped' /\ XL3Sound' /\ TrafficNumbered'
  BY <1>1, LessUnderway DEF ReadByMain, command, TrafficInv, TrafficTyped
<1>3. QED
  BY <1>2, CommandAside DEF TrafficInv, CTypeOK, ReadByMain

-----------------------------------------------------------------------------
(* The command                                                              *)

\* A number that has gone round is not above what it was.
LEMMA ModBelow == ASSUME NEW m \in Nat \ {0}, NEW a \in Nat PROVE a % m <= a
<1>1. PICK q \in Int : q = a \div m
  OBVIOUS
<1>2. PICK r \in Int : r = a % m
  OBVIOUS
<1>3. a = m * q + r /\ r >= 0 /\ r < m
  BY <1>1, <1>2, DivMod, ModRange
<1>4. CASE q >= 0
  <2>1. \A i, j \in Int : i >= 0 /\ j >= 0 => i * j >= 0
    OBVIOUS
  <2>2. PICK c \in Int : c = m * q
    OBVIOUS
  <2>3. c >= 0
    BY <1>4, <2>1, <2>2
  <2>4. QED
    BY <1>2, <1>3, <2>2, <2>3
<1>5. CASE q < 0
  <2>1. \A i, j \in Int : i >= 0 /\ j <= -1 => i * j <= -i
    OBVIOUS
  <2>2. PICK c \in Int : c = m * q
    OBVIOUS
  <2>3. c <= -m
    BY <1>5, <2>1, <2>2
  <2>4. QED
    BY <1>3, <2>2, <2>3
<1>6. QED
  BY <1>4, <1>5

\* The present request, seen by its types.
LEMMA Present ==
  ASSUME TrafficInv
  PROVE  /\ request.num \in Nat /\ request.id \in Nat /\ command_number \in Nat
         /\ asked \in Seq(AskedRequest) /\ inbox \in Seq(XL3Packet)
         /\ buffer \in Seq(Ack) /\ commands \in Seq(Ack) /\ multifc_buffer \in Seq(Ack)
         /\ looked \in Nat /\ Len(buffer) \in Nat
BY DEF TrafficInv, TrafficTyped, CTypeOK

\* Whatever is underway has an identity and a number.
LEMMA TrafficIds ==
  ASSUME TrafficInv, NEW x \in ResultTraffic PROVE x.id \in Nat /\ x.num \in Nat
<1>1. /\ Packets(asked) \subseteq AskedRequest /\ Packets(inbox) \subseteq XL3Packet
      /\ Packets(commands) \subseteq Ack
  BY Present, PacketsTyped
<1>2. Modulus \in Nat
  BY Constants
<1>3. x \in AskedRequest \/ x \in XL3Packet \/ x \in Ack
  BY <1>1 DEF ResultTraffic
<1>4. QED
  BY <1>2, <1>3 DEF AskedRequest, XL3Packet, Ack

LEMMA AskKeeps ==
  ASSUME TrafficInv, NEW kind \in {"queue", "cald"}, MayAsk, Ask(kind),
         command_number' = IF kind = "queue" THEN command_number + 1 ELSE command_number,
         pc' = IF kind = "queue" THEN "reply" ELSE "select"
  PROVE  TrafficInv'
<1>1. /\ pc = "idle" /\ looked = 0 /\ commands = <<>>
      /\ command_number \in Nat /\ request.id \in Nat /\ request.id < MaxRequests
      /\ command_number <= request.id /\ MaxRequests \in Nat
      /\ Modulus \in Nat \ {0} /\ num_cmds \in Nat \ {0} /\ slots \in Nat \ {0}
  BY Constants DEF MayAsk, TrafficInv, CTypeOK, PlacesMatch
<1>2. PICK id \in Nat : id = request.id + 1
  BY <1>1
<1>3. request' = [kind |-> kind, num |-> command_number, id |-> id]
  BY <1>2 DEF Ask
<1>4. /\ request'.kind = kind /\ request'.num = command_number /\ request'.id = id
      /\ request' \in [kind : {"none", "queue", "cald"}, num : Nat, id : Nat]
  BY <1>1, <1>3
<1>5. /\ UNCHANGED <<multifc_buffer, multifc_buffer_full, connected, broken, inbox, noise,
                     commands, looked, faults>>
      /\ buffer' = <<>> /\ point_buf' = <<>> /\ adc_buf' = <<>> /\ current' = <<0, 0>>
      /\ result' = 0 /\ settled' \in BOOLEAN
  BY DEF Ask, store
<1>6. command_number' \in Nat /\ command_number <= command_number' /\ command_number' <= id
  BY <1>1, <1>2
<1>7. PICK r : r = [kind |-> kind, num |-> command_number % Modulus, id |-> id,
                    begun |-> FALSE, sent |-> 0]
  OBVIOUS
<1>8. r \in AskedRequest
  <2>1. command_number % Modulus \in 0 .. Modulus - 1
    BY <1>1, ModRange
  <2>2. QED
    BY <1>7, <2>1 DEF AskedRequest
<1>9. RequestSound(r)
  <2>1. \A i, j \in Nat : i * j >= 0
    OBVIOUS
  <2>2. slots * num_cmds >= 0
    BY <1>1, <2>1
  <2>3. QED
    BY <1>1, <1>7, <2>2 DEF RequestSound
<1>10. asked \in Seq(AskedRequest)
  BY DEF TrafficInv, TrafficTyped
<1>11. asked' \in Seq(AskedRequest) /\ Packets(asked') \subseteq Packets(asked) \cup {r}
  <2>1. asked' = IF broken THEN asked ELSE Append(asked, r)
    BY <1>2, <1>7 DEF Ask
  <2>2. QED
    BY <1>8, <1>10, <2>1, AppendPackets
<1>12. CTypeOK'
  <2>1. /\ request'.id \in 0 .. MaxRequests /\ command_number' \in 0 .. request'.id
    BY <1>1, <1>2, <1>4, <1>6
  <2>2. Len(buffer') <= num_cmds
    BY <1>1, <1>5
  <2>3. current' \in (0 .. slots - 1) \X Nat /\ DOMAIN adc_buf' = {}
    BY <1>1, <1>5
  <2>4. QED
    BY <1>5, <2>1, <2>2, <2>3 DEF TrafficInv, CTypeOK
<1>13. TrafficTyped'
  BY <1>4, <1>5, <1>11 DEF TrafficInv, TrafficTyped
<1>14. PlacesMatch'
  BY <1>1, <1>4, <1>5 DEF PlacesMatch
<1>15. XL3Sound'
  BY <1>5, <1>9, <1>11 DEF TrafficInv, XL3Sound, PacketSound, RequestSound, InSequence
<1>16. TrafficNumbered'
  <2>1. request'.kind = "queue" => command_number' = request'.num + 1
    BY <1>4
  <2>2. ASSUME NEW x \in ResultTraffic'
        PROVE  \E n \in 0 .. command_number' - 1 : SentAs(n, x)'
    <3>1. CASE x \in ResultTraffic
      <4>1. PICK n \in 0 .. command_number - 1 : SentAs(n, x)
        BY <3>1 DEF TrafficInv, TrafficNumbered
      <4>2. x \in Unread
        BY <1>1, <3>1, EmptyPackets DEF ResultTraffic, Unread, Noise, Packet
      <4>3. x.id \in Nat
        BY <3>1, TrafficIds
      <4>4. id - x.id < Modulus
        BY <1>1, <1>2, <4>2, <4>3 DEF MayAsk
      <4>5. /\ x.num = n % Modulus /\ x.id <= request.id
            /\ command_number - n <= request.id - x.id + 1
        BY <4>1 DEF SentAs
      <4>6. x.id <= id /\ x.id # id /\ command_number' - n <= id - x.id + 1
            /\ n < command_number /\ n \in 0 .. command_number' - 1
        BY <1>1, <1>2, <1>6, <4>1, <4>3, <4>5
      <4>7. SentAs(n, x)'
        BY <1>4, <4>4, <4>5, <4>6 DEF SentAs
      <4>8. QED
        BY <4>6, <4>7
    <3>2. CASE x = r /\ kind = "queue"
      <4>1. PICK n \in Nat : n = command_number
        BY <1>1
      <4>2. x.num = n % Modulus /\ x.id = request'.id /\ request'.num = n
        BY <1>4, <1>7, <3>2, <4>1
      <4>3. /\ n \in 0 .. command_number' - 1
            /\ command_number' - n <= id - id + 1
            /\ id <= id /\ id - id < Modulus
        BY <1>1, <1>2, <3>2, <4>1
      <4>4. SentAs(n, x)'
        BY <1>4, <4>2, <4>3 DEF SentAs
      <4>5. QED
        BY <4>3, <4>4
    <3>3. x \in ResultTraffic \/ (x = r /\ kind = "queue")
      BY <1>5, <1>7, <1>11, <2>2 DEF ResultTraffic
    <3>4. QED
      BY <3>1, <3>2, <3>3
  <2>3. QED
    BY <2>1, <2>2 DEF TrafficNumbered
<1>17. StoredNumbered'
  <2>1. ASSUME NEW x \in Packets(multifc_buffer)
        PROVE  x.num < command_number' /\ x.num < command_number
    <3>1. x.num \in Nat
      <4>1. x \in Ack
        BY Present, PacketsTyped
      <4>2. QED
        BY <4>1, Constants DEF Ack
    <3>2. x.num < command_number
      BY DEF TrafficInv, StoredNumbered
    <3>3. QED
      BY <1>1, <1>6, <3>1, <3>2
  <2>2. QED
    BY <1>4, <1>5, <2>1 DEF StoredNumbered
<1>18. StillMissing'
  BY <1>4, <1>5 DEF StillMissing
<1>19. ResultsAreMine'
  <2>1. (buffer = Own(Len(buffer)))'
    BY <1>5 DEF Own, OwnResult
  <2>2. pc' # "idle"
    OBVIOUS
  <2>3. QED
    BY <2>1, <2>2 DEF ResultsAreMine
<1>20. StoredIsStale'
  <2>1. ASSUME NEW i \in DOMAIN multifc_buffer PROVE multifc_buffer[i].id < id
    <3>1. multifc_buffer[i].id \in Nat /\ multifc_buffer[i].id < request.id
      <4>1. multifc_buffer[i] \in Ack
        BY Present
      <4>2. QED
        BY <4>1 DEF TrafficInv, StoredIsStale, Ack
    <3>2. QED
      BY <1>1, <1>2, <3>1
  <2>2. QED
    BY <1>4, <1>5, <2>1 DEF StoredIsStale
<1>21. ErrorsAreReal'
  BY DEF ErrorsAreReal
<1>22. QED
  BY <1>12, <1>13, <1>14, <1>15, <1>16, <1>17, <1>18, <1>19, <1>20, <1>21 DEF TrafficInv

LEMMA QueueCommandsKeeps == TrafficInv /\ QueueCommands => TrafficInv'
BY AskKeeps DEF QueueCommands

LEMMA StartCaldKeeps == TrafficInv /\ StartCald => TrafficInv'
BY AskKeeps DEF StartCald

\* Waiting changes neither what has been collected nor what has been put aside.
LEMMA CollectedAside ==
  ASSUME TrafficInv, UNCHANGED <<command_number, request, store, buffer>>,
         pc' = "idle" => pc = "idle" \/ Len(buffer) < num_cmds \/ request.kind # "queue",
         pc' = "idle" /\ result' = 0 => (pc = "idle" /\ result = 0) \/ request.kind # "queue",
         pc' = "idle" /\ pc = "idle" => UNCHANGED result
  PROVE  StoredNumbered' /\ StoredIsStale' /\ ResultsAreMine' /\ ErrorsAreReal'
<1>1. StoredNumbered' /\ StoredIsStale'
  BY DEF store, TrafficInv, StoredNumbered, StoredIsStale
<1>2. ResultsAreMine' /\ ErrorsAreReal'
  BY DEF TrafficInv, ResultsAreMine, ErrorsAreReal, Own, OwnResult
<1>3. QED
  BY <1>1, <1>2

\* What reading the inbox leaves.
LEMMA InboxRead ==
  ASSUME TrafficInv, inbox # <<>>, inbox' = Tail(inbox)
  PROVE  /\ inbox' \in Seq(XL3Packet) /\ Packets(inbox') \subseteq Packets(inbox)
         /\ Head(inbox) \in XL3Packet /\ Head(inbox) \in Packets(inbox)
         /\ PacketSound(Head(inbox))
BY TailPackets DEF TrafficInv, TrafficTyped, XL3Sound

LEMMA ReadReplyKeeps == TrafficInv /\ ReadReply => TrafficInv'
<1> SUFFICES ASSUME TrafficInv, ReadReply PROVE TrafficInv'
  OBVIOUS
<1>1. /\ pc = "reply" /\ inbox # <<>> /\ inbox' = Tail(inbox)
      /\ pc' \in {"reply", "scan", "select"}
      /\ UNCHANGED <<command_number, store, connected, broken, asked, noise, request, result,
                     buffer, commands, looked, cald, settled, faults>>
  BY DEF ReadReply
<1>2. TrafficTyped' /\ XL3Sound' /\ TrafficNumbered'
  BY <1>1, InboxRead, Present, LessUnderway
<1>3. request.kind = "queue" /\ looked = 0 /\ commands = <<>> /\ buffer = <<>>
  BY <1>1 DEF TrafficInv, PlacesMatch, StillMissing
<1>4. CTypeOK' /\ PlacesMatch'
  BY <1>1, <1>3 DEF TrafficInv, CTypeOK, PlacesMatch, cald, store
<1>5. StillMissing'
  BY <1>1, <1>3, Constants DEF StillMissing
<1>6. StoredNumbered' /\ StoredIsStale' /\ ResultsAreMine' /\ ErrorsAreReal'
  BY <1>1, CollectedAside
<1>7. QED
  BY <1>2, <1>4, <1>5, <1>6 DEF TrafficInv

LEMMA ScanStoredKeeps == TrafficInv /\ ScanStored => TrafficInv'
<1> SUFFICES ASSUME TrafficInv, ScanStored PROVE TrafficInv'
  OBVIOUS
<1>1. PICK x : x = multifc_buffer[looked + 1]
  OBVIOUS
<1>2. pc = "scan" /\ looked < Len(multifc_buffer) /\ request.kind = "queue"
  BY DEF ScanStored, TrafficInv, PlacesMatch
<1>3. x \in Packets(multifc_buffer) /\ x \in Ack
  BY <1>1, <1>2, Present DEF Packets
<1>4. ~StoredForMe(x)
  <2>1. x.num < request.num /\ x.num \in Nat
    BY <1>2, <1>3 DEF TrafficInv, StoredNumbered, Ack
  <2>2. QED
    BY <2>1, Present DEF StoredForMe
<1>5. /\ looked' = looked + 1
      /\ UNCHANGED <<store, buffer, pc, result, command_number, connected, broken, xl3, request,
                     commands, cald, settled, faults>>
  BY <1>1, <1>4 DEF ScanStored
<1>6. TrafficTyped' /\ XL3Sound' /\ TrafficNumbered'
  BY <1>5, Present, LessUnderway DEF xl3
<1>7. CTypeOK' /\ PlacesMatch'
  BY <1>2, <1>5 DEF TrafficInv, CTypeOK, PlacesMatch, cald, store, xl3
<1>8. StillMissing'
  BY <1>2, <1>5 DEF TrafficInv, StillMissing
<1>9. StoredNumbered' /\ StoredIsStale' /\ ResultsAreMine' /\ ErrorsAreReal'
  BY <1>2, <1>5, CollectedAside
<1>10. QED
  BY <1>6, <1>7, <1>8, <1>9 DEF TrafficInv

LEMMA EndScanKeeps == TrafficInv /\ EndScan => TrafficInv'
<1> SUFFICES ASSUME TrafficInv, EndScan PROVE TrafficInv'
  OBVIOUS
<1>1. /\ pc = "scan" /\ pc' = "select" /\ looked' = 0
      /\ UNCHANGED <<command_number, store, connected, broken, xl3, request, result, buffer,
                     commands, cald, settled, faults>>
  BY DEF EndScan
<1>2. request.kind = "queue" /\ commands = <<>> /\ buffer = <<>>
  BY <1>1 DEF TrafficInv, PlacesMatch, StillMissing
<1>3. TrafficTyped' /\ XL3Sound' /\ TrafficNumbered'
  BY <1>1, Present, LessUnderway DEF xl3
<1>4. CTypeOK' /\ PlacesMatch'
  BY <1>1, <1>2 DEF TrafficInv, CTypeOK, PlacesMatch, cald, store, xl3
<1>5. StillMissing'
  BY <1>1, <1>2, Constants DEF StillMissing
<1>6. StoredNumbered' /\ StoredIsStale' /\ ResultsAreMine' /\ ErrorsAreReal'
  BY <1>1, CollectedAside
<1>7. QED
  BY <1>3, <1>4, <1>5, <1>6 DEF TrafficInv

LEMMA ReceiveAcksKeeps == TrafficInv /\ ReceiveAcks => TrafficInv'
<1> SUFFICES ASSUME TrafficInv, ReceiveAcks PROVE TrafficInv'
  OBVIOUS
<1>1. PICK p : p = Head(inbox)
  OBVIOUS
<1>2. /\ pc \in {"select", "recv"} /\ inbox # <<>> /\ inbox' = Tail(inbox)
      /\ request.kind = "queue" /\ p.type = "acks" /\ commands' = p.results /\ pc' = "acks"
      /\ UNCHANGED <<command_number, store, connected, broken, asked, noise, request, result,
                     buffer, looked, cald, settled, faults>>
  BY <1>1 DEF ReceiveAcks, Receiving
<1>3. /\ inbox' \in Seq(XL3Packet) /\ Packets(inbox') \subseteq Packets(inbox)
      /\ p \in XL3Packet /\ p \in Packets(inbox) /\ PacketSound(p)
  BY <1>1, <1>2, InboxRead
<1>4. commands' \in Seq(Ack) /\ InSequence(commands')
      /\ \A x \in Packets(commands') : x.num = p.num /\ x.id = p.id
  BY <1>2, <1>3 DEF XL3Packet, PacketSound
<1>5. commands = <<>> /\ looked = 0 /\ Len(buffer) < num_cmds
  BY <1>2 DEF TrafficInv, PlacesMatch, StillMissing
<1>6. TrafficTyped'
  BY <1>2, <1>3, <1>4, Present DEF TrafficInv, TrafficTyped, store
<1>7. XL3Sound'
  BY <1>2, <1>3, <1>4 DEF TrafficInv, XL3Sound, PacketSound, RequestSound, InSequence
<1>8. TrafficNumbered'
  <2>1. p \in ResultTraffic
    BY <1>2, <1>3 DEF ResultTraffic
  <2>2. ASSUME NEW x \in ResultTraffic'
        PROVE  \E y \in ResultTraffic : x.num = y.num /\ x.id = y.id
    <3>1. CASE x \in Packets(commands')
      BY <1>4, <2>1, <3>1
    <3>2. CASE x \in ResultTraffic
      BY <3>2
    <3>3. QED
      BY <1>2, <1>3, <2>2, <3>1, <3>2 DEF ResultTraffic
  <2>3. QED
    BY <1>2, <2>2, NumbersStay
<1>9. CTypeOK'
  BY <1>2 DEF TrafficInv, CTypeOK, cald, store
<1>10. PlacesMatch' /\ StillMissing'
  BY <1>2, <1>4, <1>5 DEF PlacesMatch, StillMissing
<1>11. StoredNumbered' /\ StoredIsStale' /\ ResultsAreMine' /\ ErrorsAreReal'
  BY <1>2, CollectedAside
<1>12. QED
  BY <1>6, <1>7, <1>8, <1>9, <1>10, <1>11 DEF TrafficInv

\* The numbers tell the results of the present read from all others.
LEMMA NumbersTell ==
  ASSUME TrafficInv, pc = "acks", NEW x \in Packets(commands)
  PROVE  /\ ForMe(x) => x.id = request.id /\ x.num = request.num % Modulus
         /\ ~ForMe(x) => /\ x.id < request.id
                         /\ x.num < request.num /\ x.num < command_number
<1>1. request.kind = "queue" /\ command_number = request.num + 1
  BY DEF TrafficInv, PlacesMatch, TrafficNumbered
<1>2. x.id \in Nat /\ x.num \in Nat /\ Modulus \in Nat \ {0}
  BY TrafficIds, Constants DEF ResultTraffic
<1>3. PICK n \in 0 .. command_number - 1 : SentAs(n, x)
  BY DEF TrafficInv, TrafficNumbered, ResultTraffic
<1>4. /\ x.num = n % Modulus /\ x.id <= request.id /\ request.id - x.id < Modulus
      /\ command_number - n <= request.id - x.id + 1
      /\ IF x.id = request.id THEN n = request.num ELSE n < request.num
  BY <1>1, <1>3 DEF SentAs
<1>5. CASE x.id = request.id
  BY <1>4, <1>5 DEF ForMe
<1>6. CASE x.id # request.id
  <2>1. n < request.num /\ n \in Nat /\ request.num - n < Modulus
    <3>1. PICK a \in Nat, b \in Nat : a = request.id /\ b = x.id
      BY <1>2, Present
    <3>2. PICK k \in Nat : k = request.num
      BY Present
    <3>3. n \in Nat /\ a - b < Modulus /\ (k + 1) - n <= a - b + 1 /\ n < k
      BY <1>1, <1>3, <1>4, <1>6, <3>1, <3>2
    <3>4. QED
      BY <1>2, <3>2, <3>3
  <2>2. request.num % Modulus # n % Modulus
    BY <1>2, <2>1, Present, ModDiffers
  <2>3. n % Modulus <= n
    BY <1>2, <2>1, ModBelow
  <2>4. x.num < request.num /\ x.num < command_number /\ x.id < request.id
    <3>1. PICK k \in Nat, v \in Nat : k = request.num /\ v = x.num
      BY <1>2, Present
    <3>2. v <= n /\ n < k /\ n \in Nat /\ command_number = k + 1
      BY <1>1, <1>4, <2>1, <2>3, <3>1
    <3>3. v < k /\ v < k + 1
      BY <3>2
    <3>4. x.id < request.id
      BY <1>2, <1>4, <1>6, Present
    <3>5. QED
      BY <3>1, <3>2, <3>3, <3>4
  <2>5. QED
    BY <1>4, <2>2, <2>4 DEF ForMe
<1>7. QED
  BY <1>5, <1>6

LEMMA CollectAckKeeps == TrafficInv /\ CollectAck => TrafficInv'
<1> SUFFICES ASSUME TrafficInv, CollectAck PROVE TrafficInv'
  OBVIOUS
<1>1. PICK x : x = commands[looked + 1]
  OBVIOUS
<1>2. /\ pc = "acks" /\ request.kind = "queue" /\ looked < Len(commands)
      /\ looked + 1 \in DOMAIN commands /\ looked \in Nat /\ commands \in Seq(Ack)
  BY Present DEF CollectAck, TrafficInv, PlacesMatch
<1>3. x \in Packets(commands) /\ x \in Ack
  BY <1>1, <1>2 DEF Packets
<1>4. x.cmd_num \in Nat /\ x.cmd_num < num_cmds /\ num_cmds \in Nat
  BY <1>1, <1>2, <1>3, Constants DEF TrafficInv, XL3Sound, InSequence, Ack
<1>5. Len(buffer) \in Nat /\ buffer \in Seq(Ack) /\ multifc_buffer \in Seq(Ack)
  BY Present
\* Something is missing: if there were no more the last result would have been the last.
<1>6. Len(buffer) < num_cmds
  <2>1. CASE looked > 0 /\ Len(buffer) = commands[looked].cmd_num + 1
    <3>1. looked \in DOMAIN commands
      BY <1>2, <2>1
    <3>2. commands[looked] \in Ack /\ commands[1] \in Ack
      BY <1>2, <3>1
    <3>3. PICK a \in Nat, b \in Nat : a = commands[looked].cmd_num /\ b = commands[1].cmd_num
      BY <3>2 DEF Ack
    <3>4. a = b + looked - 1 /\ x.cmd_num = b + (looked + 1) - 1
      BY <1>1, <1>2, <3>1, <3>3 DEF TrafficInv, XL3Sound, InSequence
    <3>5. QED
      BY <1>2, <1>4, <2>1, <3>3, <3>4
  <2>2. QED
    BY <1>2, <2>1 DEF TrafficInv, StillMissing
<1>7. UNCHANGED <<command_number, connected, broken, xl3, request, cald, settled, faults>>
  BY DEF CollectAck
<1>8. UNCHANGED <<asked, inbox, noise, point_buf, adc_buf, current>>
  BY <1>7 DEF xl3, cald
<1>9. CASE ForMe(x) /\ InOrder(x)
  <2>1. /\ buffer' = Append(buffer, x) /\ looked' = looked + 1
        /\ UNCHANGED <<store, pc, result, commands>>
    BY <1>1, <1>9 DEF CollectAck
  <2>2. x.id = request.id /\ x.num = request.num % Modulus /\ x.cmd_num = Len(buffer)
    BY <1>2, <1>3, <1>9, NumbersTell DEF InOrder
  <2>3. buffer' \in Seq(Ack) /\ Len(buffer') = Len(buffer) + 1
    BY <1>3, <1>5, <2>1
  <2>4. TrafficTyped' /\ XL3Sound' /\ TrafficNumbered'
    BY <1>2, <1>7, <1>8, <2>1, <2>3, Present, LessUnderway
  <2>5. Len(buffer') <= num_cmds
    BY <1>4, <1>5, <1>6, <2>3
  <2>6. CTypeOK'
    BY <1>7, <1>8, <2>1, <2>5 DEF TrafficInv, CTypeOK, store
  <2>7. PlacesMatch'
    BY <1>2, <1>7, <2>1 DEF PlacesMatch
  <2>8. StillMissing'
    BY <1>1, <1>2, <1>7, <2>1, <2>2, <2>3 DEF StillMissing
  <2>9. StoredNumbered' /\ StoredIsStale'
    BY <1>7, <2>1 DEF store, TrafficInv, StoredNumbered, StoredIsStale
  <2>10. ResultsAreMine'
    <3>1. buffer = Own(Len(buffer))
      BY <1>2 DEF TrafficInv, ResultsAreMine
    <3>2. x = [num |-> request.num % Modulus, id |-> request.id, cmd_num |-> Len(buffer)]
      BY <1>3, <2>2 DEF Ack
    <3>3. Append(buffer, x) = Own(Len(buffer) + 1)
      <4>1. PICK k \in Nat : k = Len(buffer)
        BY <1>5
      <4>2. \A i \in 1 .. k : buffer[i] = [num |-> request.num % Modulus, id |-> request.id, cmd_num |-> i - 1]
        BY <3>1, <4>1 DEF Own, OwnResult
      <4>3. PICK b \in Seq(Ack) : b = Append(buffer, x)
        <5>1. Append(buffer, x) \in Seq(Ack)
          BY <1>3, <1>5
        <5>2. QED
          BY <5>1
      <4>4. Len(b) = k + 1 /\ (\A i \in 1 .. k : b[i] = buffer[i]) /\ b[k + 1] = x
        BY <1>3, <1>5, <4>1, <4>3
      <4>5. b = [i \in 1 .. k + 1 |-> b[i]]
        BY <4>4
      <4>6. ASSUME NEW i \in 1 .. k + 1
            PROVE  b[i] = [num |-> request.num % Modulus, id |-> request.id, cmd_num |-> i - 1]
        <5>1. CASE i \in 1 .. k
          BY <4>2, <4>4, <5>1
        <5>2. CASE i = k + 1
          BY <3>2, <4>1, <4>4, <5>2
        <5>3. i \in 1 .. k \/ i = k + 1
          BY <4>1
        <5>4. QED
          BY <5>1, <5>2, <5>3
      <4>7. QED
        BY <4>1, <4>3, <4>5, <4>6 DEF Own, OwnResult
    <3>4. (buffer = Own(Len(buffer)))'
      BY <1>7, <2>1, <2>3, <3>3 DEF Own, OwnResult
    <3>5. QED
      BY <1>2, <2>1, <3>4 DEF ResultsAreMine
  <2>11. ErrorsAreReal'
    BY <1>2, <2>1 DEF ErrorsAreReal
  <2>12. QED
    BY <2>4, <2>6, <2>7, <2>8, <2>9, <2>10, <2>11 DEF TrafficInv
<1>10. CASE ForMe(x) /\ ~InOrder(x)
  <2>1. /\ pc' = "idle" /\ result' = -1 /\ looked' = 0 /\ commands' = <<>>
        /\ UNCHANGED <<store, buffer>>
    BY <1>1, <1>10 DEF CollectAck, Return
  <2>2. TrafficTyped'
    BY <1>7, <1>8, <2>1 DEF TrafficInv, TrafficTyped, store
  <2>3. XL3Sound'
    BY <1>8, <2>1 DEF TrafficInv, XL3Sound, PacketSound, RequestSound, InSequence
  <2>4. ResultTraffic' \subseteq ResultTraffic
    BY <1>8, <2>1, EmptyPackets DEF ResultTraffic
  <2>5. TrafficNumbered'
    BY <1>7, <2>4, NumbersStay
  <2>6. CTypeOK' /\ PlacesMatch' /\ StillMissing'
    BY <1>7, <1>8, <2>1 DEF TrafficInv, CTypeOK, PlacesMatch, StillMissing, store
  <2>7. StoredNumbered' /\ StoredIsStale' /\ ResultsAreMine' /\ ErrorsAreReal'
    BY <1>2, <1>6, <1>7, <2>1, CollectedAside
  <2>8. QED
    BY <2>2, <2>3, <2>5, <2>6, <2>7 DEF TrafficInv
<1>11. CASE ~ForMe(x)
  <2>1. /\ multifc_buffer' = Append(multifc_buffer, x) /\ multifc_buffer_full' = TRUE
        /\ looked' = looked + 1
        /\ UNCHANGED <<buffer, pc, result, commands>>
    BY <1>1, <1>11 DEF CollectAck
  <2>2. x.id < request.id /\ x.num < request.num /\ x.num < command_number
    BY <1>2, <1>3, <1>11, NumbersTell
  <2>3. /\ multifc_buffer' \in Seq(Ack) /\ multifc_buffer' # <<>>
        /\ Packets(multifc_buffer') = Packets(multifc_buffer) \cup {x}
    BY <1>3, <1>5, <2>1, AppendPackets
  <2>4. TrafficTyped'
    BY <1>2, <1>7, <1>8, <2>1, <2>3 DEF TrafficInv, TrafficTyped
  <2>5. XL3Sound'
    BY <1>8, <2>1 DEF TrafficInv, XL3Sound, PacketSound, RequestSound, InSequence
  <2>6. ResultTraffic' = ResultTraffic
    BY <1>8, <2>1 DEF ResultTraffic
  <2>7. TrafficNumbered'
    BY <1>7, <2>6, NumbersStay
  <2>8. CTypeOK'
    BY <1>7, <1>8, <2>1, <2>3 DEF TrafficInv, CTypeOK
  <2>9. PlacesMatch' /\ StillMissing'
    BY <1>2, <1>6, <1>7, <2>1 DEF PlacesMatch, StillMissing
  <2>10. StoredNumbered'
    BY <1>7, <2>2, <2>3 DEF TrafficInv, StoredNumbered
  <2>11. StoredIsStale'
    <3>1. \A y \in Packets(multifc_buffer) : y.id < request.id
      BY DEF TrafficInv, StoredIsStale, Packets
    <3>2. \A y \in Packets(multifc_buffer') : y.id < request.id
      BY <2>2, <2>3, <3>1
    <3>3. QED
      BY <1>7, <3>2 DEF StoredIsStale, Packets
  <2>12. ResultsAreMine' /\ ErrorsAreReal'
    BY <1>2, <1>7, <2>1 DEF TrafficInv, ResultsAreMine, ErrorsAreReal, Own, OwnResult
  <2>13. QED
    BY <2>4, <2>5, <2>7, <2>8, <2>9, <2>10, <2>11, <2>12 DEF TrafficInv
<1>12. QED
  BY <1>9, <1>10, <1>11

LEMMA EndOfAcksKeeps == TrafficInv /\ EndOfAcks => TrafficInv'
<1> SUFFICES ASSUME TrafficInv, EndOfAcks PROVE TrafficInv'
  OBVIOUS
<1>1. /\ pc = "acks" /\ looked' = 0 /\ commands' = <<>>
      /\ IF Complete THEN pc' = "idle" /\ result' = 0
         ELSE pc' \in {"recv", "select"} /\ UNCHANGED result
      /\ UNCHANGED <<command_number, store, connected, broken, asked, inbox, noise, request,
                     buffer, point_buf, adc_buf, current, settled, faults>>
  BY DEF EndOfAcks, Return, NextCrate, xl3, cald
<1>2. request.kind = "queue" /\ Len(buffer) <= num_cmds /\ num_cmds \in Nat /\ Len(buffer) \in Nat
  BY <1>1, Constants, Present DEF TrafficInv, PlacesMatch, CTypeOK
<1>3. Complete <=> Len(buffer) = num_cmds
  BY DEF Complete
<1>4. TrafficTyped'
  BY <1>1 DEF TrafficInv, TrafficTyped, store
<1>5. XL3Sound'
  BY <1>1 DEF TrafficInv, XL3Sound, PacketSound, RequestSound, InSequence
<1>6. ResultTraffic' \subseteq ResultTraffic
  BY <1>1, EmptyPackets DEF ResultTraffic
<1>7. TrafficNumbered'
  BY <1>1, <1>6, NumbersStay
<1>8. CTypeOK'
  BY <1>1 DEF TrafficInv, CTypeOK, store
<1>9. PlacesMatch'
  BY <1>1, <1>2 DEF PlacesMatch
<1>10. StillMissing'
  BY <1>1, <1>2, <1>3 DEF StillMissing
<1>11. StoredNumbered' /\ StoredIsStale'
  BY <1>1 DEF store, TrafficInv, StoredNumbered, StoredIsStale
<1>12. ResultsAreMine' /\ ErrorsAreReal'
  BY <1>1, <1>2, <1>3 DEF TrafficInv, ResultsAreMine, ErrorsAreReal, Own, OwnResult
<1>13. QED
  BY <1>4, <1>5, <1>7, <1>8, <1>9, <1>10, <1>11, <1>12 DEF TrafficInv

\* A point's slot is one of the slots.
LEMMA SlotInRange ==
  ASSUME NEW m \in Nat \ {0}, NEW k \in Nat \ {0}, NEW a \in Nat, a < k * m
  PROVE  a \div m \in 0 .. k - 1
<1>1. PICK q \in Int : q = a \div m
  OBVIOUS
<1>2. PICK r \in Int : r = a % m
  OBVIOUS
<1>3. a = m * q + r /\ r >= 0 /\ r < m
  BY <1>1, <1>2, DivMod, ModRange
<1>4. q < k
  <2>1. \A i, j, l \in Int : i >= 0 /\ j >= l => i * j >= i * l
    OBVIOUS
  <2>2. CASE q >= k
    <3>1. m * q >= m * k
      BY <2>1, <2>2
    <3>2. m * k = k * m
      OBVIOUS
    <3>3. QED
      BY <1>3, <3>1, <3>2
  <2>3. QED
    BY <2>2
<1>5. q >= 0
  <2>1. \A i, j \in Int : i >= 0 /\ j <= -1 => i * j <= -i
    OBVIOUS
  <2>2. CASE q <= -1
    <3>1. PICK c \in Int : c = m * q
      OBVIOUS
    <3>2. c <= -m
      BY <2>1, <2>2, <3>1
    <3>3. QED
      BY <1>3, <3>1, <3>2
  <2>3. QED
    BY <2>2
<1>6. QED
  BY <1>1, <1>4, <1>5

LEMMA CollectPointsKeeps == TrafficInv /\ CollectPoints => TrafficInv'
<1> SUFFICES ASSUME TrafficInv, CollectPoints PROVE TrafficInv'
  OBVIOUS
<1>1. PICK p : p = Head(inbox)
  OBVIOUS
<1>2. /\ pc \in {"select", "recv"} /\ pc' = "select" /\ inbox # <<>> /\ inbox' = Tail(inbox)
      /\ request.kind = "cald" /\ p.type = "points"
      /\ UNCHANGED <<command_number, store, connected, broken, asked, noise, request, result,
                     buffer, commands, looked, settled, faults>>
  BY <1>1 DEF CollectPoints, Receiving
<1>3. TrafficTyped' /\ XL3Sound' /\ TrafficNumbered'
  BY <1>2, InboxRead, Present, LessUnderway
<1>4. PlacesMatch' /\ StillMissing'
  BY <1>2 DEF TrafficInv, PlacesMatch, StillMissing
<1>5. StoredNumbered' /\ StoredIsStale' /\ ResultsAreMine' /\ ErrorsAreReal'
  BY <1>2, CollectedAside
<1>6. PICK slot, first : slot = PlaceFor(p)[1] /\ first = PlaceFor(p)[2]
  OBVIOUS
<1>7. slot \in 0 .. slots - 1 /\ first \in Nat
  <2>1. p \in XL3Packet /\ p.results # <<>> /\ p.results[1].cmd_num < slots * num_cmds
    BY <1>1, <1>2, InboxRead DEF PacketSound
  <2>2. p.results[1] \in Ack
    BY <2>1 DEF XL3Packet
  <2>3. SlotOf(p.results[1]) \in 0 .. slots - 1
    BY <2>1, <2>2, SlotInRange, Constants DEF SlotOf, Ack
  <2>4. current \in (0 .. slots - 1) \X Nat
    BY DEF TrafficInv, CTypeOK
  <2>5. QED
    BY <1>6, <2>3, <2>4 DEF PlaceFor
<1>8. PICK behind \in Nat : behind = first + Len(p.results)
  BY <1>1, <1>2, <1>7, InboxRead DEF XL3Packet
<1>9. PICK cells : cells = {slot} \X (first .. behind - 1)
  OBVIOUS
<1>10. cells \subseteq (0 .. slots - 1) \X Nat
  BY <1>7, <1>8, <1>9
<1>11. PICK new : new = [cell \in cells |-> p.results[cell[2] - first + 1]]
  OBVIOUS
<1>12. /\ adc_buf' = Over(new, adc_buf)
       /\ point_buf' = Over([cell \in {<<0, 0>>} |-> p.results[Len(p.results)]], Over(new, point_buf))
       /\ current' = <<slot, behind>>
  BY <1>1, <1>6, <1>8, <1>9, <1>11 DEF CollectPoints
<1>13. /\ DOMAIN adc_buf' = cells \cup DOMAIN adc_buf
       /\ DOMAIN point_buf' = {<<0, 0>>} \cup (cells \cup DOMAIN point_buf)
  BY <1>11, <1>12 DEF Over
<1>14. /\ DOMAIN adc_buf' \subseteq DOMAIN point_buf'
       /\ DOMAIN adc_buf' \subseteq (0 .. slots - 1) \X Nat
       /\ current' \in (0 .. slots - 1) \X Nat
  BY <1>7, <1>8, <1>10, <1>12, <1>13 DEF TrafficInv, CTypeOK
<1>15. CTypeOK'
  BY <1>2, <1>14 DEF TrafficInv, CTypeOK, store
<1>16. QED
  BY <1>3, <1>4, <1>5, <1>15 DEF TrafficInv

\* A wait that ends early ends with an error, and before all results have come.
LEMMA GivesUp ==
  ASSUME TrafficInv, pc \in {"reply", "select", "recv"}, pc' = "idle",
         result' \in {0, -1, -3}, result' = 0 => request.kind = "cald",
         inbox' \in Seq(XL3Packet), Packets(inbox') \subseteq Packets(inbox),
         {connected', broken'} \subseteq BOOLEAN,
         UNCHANGED <<command_number, store, asked, noise, request, buffer, commands, looked,
                     cald, settled, faults>>
  PROVE  TrafficInv'
<1>1. TrafficTyped' /\ XL3Sound' /\ TrafficNumbered'
  BY Present, LessUnderway
<1>2. CTypeOK' /\ PlacesMatch' /\ StillMissing'
  BY DEF TrafficInv, CTypeOK, PlacesMatch, StillMissing, cald, store
<1>3. request.kind = "queue" => Len(buffer) < num_cmds
  BY Constants DEF TrafficInv, StillMissing
<1>4. StoredNumbered' /\ StoredIsStale' /\ ResultsAreMine' /\ ErrorsAreReal'
  BY <1>3, CollectedAside
<1>5. QED
  BY <1>1, <1>2, <1>4 DEF TrafficInv

LEMMA FinishCaldKeeps == TrafficInv /\ FinishCald => TrafficInv'
<1> SUFFICES ASSUME TrafficInv, FinishCald PROVE TrafficInv'
  OBVIOUS
<1>1. inbox # <<>> /\ inbox' = Tail(inbox) /\ pc \in {"select", "recv"} /\ request.kind = "cald"
  BY DEF FinishCald, Receiving
<1>2. {connected', broken'} \subseteq BOOLEAN
  BY DEF FinishCald, TrafficInv, CTypeOK
<1>3. QED
  BY <1>1, <1>2, InboxRead, GivesUp DEF FinishCald, Return

LEMMA TimeOutKeeps == TrafficInv /\ TimeOut => TrafficInv'
<1> SUFFICES ASSUME TrafficInv, TimeOut PROVE TrafficInv'
  OBVIOUS
<1>1. {connected', broken'} \subseteq BOOLEAN
  BY DEF TimeOut, TrafficInv, CTypeOK
<1>2. QED
  BY <1>1, Present, GivesUp DEF TimeOut, Return, xl3

LEMMA ClosedKeeps == TrafficInv /\ Closed => TrafficInv'
<1> SUFFICES ASSUME TrafficInv, Closed PROVE TrafficInv'
  OBVIOUS
<1>1. /\ pc \in {"reply", "select", "recv"} /\ pc' = "idle" /\ result' = -1
      /\ connected' = FALSE /\ broken' = FALSE
      /\ UNCHANGED <<command_number, store, asked, inbox, noise, request, buffer, commands,
                     looked, cald, settled, faults>>
  BY DEF Closed, Return, xl3
<1>2. {connected', broken'} \subseteq BOOLEAN /\ result' \in {0, -1, -3} /\ result' # 0
  <2>1. connected' \in BOOLEAN /\ broken' \in BOOLEAN
    BY <1>1
  <2>2. result' \in {0, -1, -3} /\ result' # 0
    BY <1>1
  <2>3. QED
    BY <2>1, <2>2
<1>3. inbox' \in Seq(XL3Packet) /\ Packets(inbox') \subseteq Packets(inbox)
  BY <1>1, Present
<1>4. QED
  BY <1>1, <1>2, <1>3, GivesUp

LEMMA IgnoreKeeps == TrafficInv /\ Ignore => TrafficInv'
<1> SUFFICES ASSUME TrafficInv, Ignore PROVE TrafficInv'
  OBVIOUS
<1>1. /\ pc \in {"select", "recv"} /\ pc' = "select" /\ inbox # <<>> /\ inbox' = Tail(inbox)
      /\ UNCHANGED <<command_number, store, connected, broken, asked, noise, request, result,
                     buffer, commands, looked, cald, settled, faults>>
  BY DEF Ignore, Receiving
<1>2. TrafficTyped' /\ XL3Sound' /\ TrafficNumbered'
  BY <1>1, InboxRead, Present, LessUnderway
<1>3. CTypeOK' /\ PlacesMatch' /\ StillMissing'
  BY <1>1 DEF TrafficInv, CTypeOK, PlacesMatch, StillMissing, cald, store
<1>4. StoredNumbered' /\ StoredIsStale' /\ ResultsAreMine' /\ ErrorsAreReal'
  BY <1>1, CollectedAside
<1>5. QED
  BY <1>2, <1>3, <1>4 DEF TrafficInv

-----------------------------------------------------------------------------
(* All steps                                                                *)

LEMMA TrafficInit == Init => TrafficInv
<1> SUFFICES ASSUME Init PROVE TrafficInv
  OBVIOUS
<1> USE Constants DEF Init
<1>1. CTypeOK
  <2>1. DOMAIN adc_buf = {} /\ Len(buffer) = 0
    OBVIOUS
  <2>2. current \in (0 .. slots - 1) \X Nat
    OBVIOUS
  <2>3. /\ request.id \in 0 .. MaxRequests /\ command_number \in 0 .. request.id
        /\ noise \in 0 .. MaxNoise /\ faults \in 0 .. MaxFaults /\ 0 <= num_cmds
    BY DEF NoRequest
  <2>4. QED
    BY <2>1, <2>2, <2>3 DEF CTypeOK
<1>2. TrafficTyped /\ PlacesMatch
  BY DEF TrafficTyped, PlacesMatch, NoRequest
<1>3. XL3Sound
  BY EmptyPackets DEF XL3Sound, InSequence
<1>4. TrafficNumbered /\ StoredNumbered
  BY EmptyPackets DEF TrafficNumbered, StoredNumbered, ResultTraffic, NoRequest
<1>5. StillMissing /\ ResultsAreMine /\ StoredIsStale /\ ErrorsAreReal
  BY DEF StillMissing, ResultsAreMine, StoredIsStale, ErrorsAreReal, NoRequest
<1>6. QED
  BY <1>1, <1>2, <1>3, <1>4, <1>5 DEF TrafficInv

\* Every step of the command, the XL3 and the connection keeps the invariant.
LEMMA TrafficStep == TrafficInv /\ [Next]_vars => TrafficInv'
<1> SUFFICES ASSUME TrafficInv, [Next]_vars PROVE TrafficInv'
  OBVIOUS
<1>1. CASE XL3Step
  <2>1. CASE Acknowledge
    BY <2>1, AcknowledgeKeeps
  <2>2. ASSUME NEW n \in 1 .. num_cmds, SendResults(n) PROVE TrafficInv'
    BY <2>2, SendResultsKeeps
  <2>3. ASSUME NEW n \in 1 .. num_cmds, SendPoints(n) PROVE TrafficInv'
    BY <2>3, SendPointsKeeps
  <2>4. CASE EndCald
    BY <2>4, EndCaldKeeps
  <2>5. CASE SayMore
    BY <2>5, SayMoreKeeps
  <2>6. QED
    BY <1>1, <2>1, <2>2, <2>3, <2>4, <2>5 DEF XL3Step
<1>2. CASE CommandStep
  BY <1>2, ReadReplyKeeps, ScanStoredKeeps, EndScanKeeps, ReceiveAcksKeeps, CollectAckKeeps,
     EndOfAcksKeeps, CollectPointsKeeps, FinishCaldKeeps, IgnoreKeeps, TimeOutKeeps, ClosedKeeps
  DEF CommandStep
<1>3. CASE QueueCommands \/ StartCald
  BY <1>3, QueueCommandsKeeps, StartCaldKeeps
<1>4. CASE Break \/ Reconnect \/ ReadByMain
  BY <1>4, BreakKeeps, ReconnectKeeps, ReadByMainKeeps
<1>5. CASE UNCHANGED vars
  <2>1. UNCHANGED <<command_number, store, connected, broken, xl3, command, faults>>
    BY <1>5 DEF vars
  <2>2. /\ UNCHANGED <<asked, inbox, noise, request, buffer, commands, looked>>
    BY <2>1 DEF xl3, command
  <2>3. TrafficTyped' /\ XL3Sound' /\ TrafficNumbered'
    BY <2>1, <2>2, Present, LessUnderway
  <2>4. QED
    BY <2>1, <2>2, <2>3, CommandAside DEF TrafficInv, CTypeOK
<1>6. QED
  BY <1>1, <1>2, <1>3, <1>4, <1>5 DEF Next

-----------------------------------------------------------------------------
(* The points of a CALD test                                                *)

\* Quotient and remainder are what they are.
LEMMA DivUnique ==
  ASSUME NEW m \in Nat \ {0}, NEW q \in Nat, NEW r \in Nat, r < m,
         NEW c \in Nat, c = q * m, NEW a \in Nat, a = c + r
  PROVE  a \div m = q /\ a % m = r
<1>1. PICK p \in Int : p = a \div m
  OBVIOUS
<1>2. PICK s \in Int : s = a % m
  OBVIOUS
<1>3. a = m * p + s /\ s >= 0 /\ s < m
  <2>1. a = m * (a \div m) + (a % m)
    BY DivMod
  <2>2. a % m \in 0 .. m - 1
    BY ModRange
  <2>3. QED
    BY <1>1, <1>2, <2>1, <2>2
<1>4. m * p - m * q = r - s
  <2>1. m * q = c
    OBVIOUS
  <2>2. PICK d \in Int : d = m * p
    OBVIOUS
  <2>3. QED
    BY <1>3, <2>1, <2>2
<1>5. m * (p - q) = r - s
  <2>1. m * (p - q) = m * p - m * q
    OBVIOUS
  <2>2. QED
    BY <1>4, <2>1
<1>6. p = q
  <2>1. PICK d \in Int : d = p - q
    OBVIOUS
  <2>2. m * d = r - s
    BY <1>5, <2>1
  <2>3. PICK e \in Int : e = m * d
    OBVIOUS
  <2>4. e < m /\ e > -m
    BY <1>3, <2>2, <2>3
  <2>5. \A i, j \in Int : i >= 0 /\ j >= 1 => i * j >= i
    OBVIOUS
  <2>6. \A i, j \in Int : i >= 0 /\ j <= -1 => i * j <= -i
    OBVIOUS
  <2>7. d = 0
    BY <2>3, <2>4, <2>5, <2>6
  <2>8. QED
    BY <2>1, <2>7
<1>7. s = r
  BY <1>3, <1>4, <1>6
<1>8. QED
  BY <1>1, <1>2, <1>6, <1>7

LEMMA DivExact ==
  ASSUME NEW m \in Nat \ {0}, NEW q \in Nat, NEW a \in Nat, a = q * m
  PROVE  a \div m = q /\ a % m = 0
<1>1. PICK r \in Nat : r = 0
  OBVIOUS
<1>2. PICK c \in Nat : c = q * m
  OBVIOUS
<1>3. a = c + r /\ r < m
  BY <1>1, <1>2
<1>4. a \div m = q /\ a % m = r
  BY ONLY DivUnique, <1>1, <1>2, <1>3, m \in Nat \ {0}, q \in Nat, a \in Nat
<1>5. QED
  BY <1>1, <1>4

\* A cell comes before the points behind its slot.
LEMMA PlaceOfCell ==
  ASSUME NEW slot \in Nat, NEW point \in Nat
  PROVE  /\ PlaceOf(<<slot, point>>) = slot * num_cmds + point
         /\ PlaceOf(<<slot, point>>) \in Nat /\ slot * num_cmds \in Nat
<1>1. num_cmds \in Nat
  BY Constants
<1>2. \A i, j \in Nat : i * j \in Nat
  OBVIOUS
<1>3. PICK c \in Nat : c = slot * num_cmds
  BY <1>1, <1>2
<1>4. PlaceOf(<<slot, point>>) = slot * num_cmds + point
  BY DEF PlaceOf
<1>5. PlaceOf(<<slot, point>>) = c + point
  BY <1>3, <1>4
<1>6. QED
  BY <1>3, <1>4, <1>5

LEMMA GivenTyped == TrafficInv => Given \in Nat
<1> SUFFICES ASSUME TrafficInv PROVE Given \in Nat
  OBVIOUS
<1>1. PICK slot \in Nat, point \in Nat : current = <<slot, point>>
  BY Constants DEF TrafficInv, CTypeOK
<1>2. QED
  BY <1>1, PlaceOfCell DEF Given

\* A packet of points has some, of one slot after the other.
LEMMA PointsPacket ==
  ASSUME NEW p \in XL3Packet, PacketSound(p), p.type = "points"
  PROVE  /\ p.results \in Seq(Ack) /\ p.results # <<>> /\ Len(p.results) \in Nat \ {0}
         /\ p.results[1].cmd_num \in Nat /\ p.results[1].cmd_num < slots * num_cmds
         /\ Behind(p) \in Nat /\ p.results[1].cmd_num < Behind(p)
<1>1. p.results \in Seq(Ack) /\ p.results # <<>>
  BY DEF XL3Packet, PacketSound
<1>2. Len(p.results) \in Nat \ {0}
  BY <1>1
<1>3. p.results[1] \in Ack
  BY <1>1
<1>4. p.results[1].cmd_num \in Nat /\ p.results[1].cmd_num < slots * num_cmds
  BY <1>3 DEF Ack, PacketSound
<1>5. Behind(p) \in Nat /\ p.results[1].cmd_num < Behind(p)
  BY <1>2, <1>4 DEF Behind
<1>6. QED
  BY <1>1, <1>2, <1>4, <1>5

LEMMA InboxSound ==
  ASSUME TrafficInv, NEW k \in DOMAIN inbox
  PROVE  inbox[k] \in XL3Packet /\ PacketSound(inbox[k])
BY DEF TrafficInv, TrafficTyped, XL3Sound, Packets

LEMMA ReachedTyped ==
  ASSUME TrafficInv, NEW k \in Nat, k <= Len(inbox) PROVE Reached(k) \subseteq Nat
<1>1. \A i \in 1 .. k : i \in DOMAIN inbox
  BY DEF TrafficInv, TrafficTyped
<1>2. \A i \in 1 .. k : inbox[i].type = "points" => Behind(inbox[i]) \in Nat
  BY <1>1, InboxSound, PointsPacket
<1>3. QED
  BY <1>2, GivenTyped DEF Reached

\* The XL3 says something more, in order.
LEMMA MoreUnderway ==
  ASSUME TrafficInv, PointsUnderway, UNCHANGED <<request, current>>,
         NEW p \in XL3Packet, PacketSound(p), inbox' = Append(inbox, p),
         p.type = "points" =>
           /\ IsMax(p.results[1].cmd_num, Reached(Len(inbox)))
           /\ (p.results[1].cmd_num % num_cmds) + Len(p.results) <= num_cmds
           /\ \A j \in DOMAIN p.results : p.results[j] = OwnResult(p.results[1].cmd_num + j - 1),
         p.type = "end" => IsMax(slots * num_cmds, Reached(Len(inbox))),
         asked' # <<>> =>
           /\ Len(asked') = 1 /\ asked'[1].kind = "cald"
           /\ asked'[1].num = request.num % Modulus /\ asked'[1].id = request.id
           /\ IF p.type = "points" THEN asked'[1].sent = Behind(p)
              ELSE IsMax(asked'[1].sent, Reached(Len(inbox)))
  PROVE  PointsUnderway'
<1>1. PICK len \in Nat : len = Len(inbox)
  BY DEF TrafficInv, TrafficTyped
<1>2. /\ Len(inbox') = len + 1 /\ DOMAIN inbox = 1 .. len /\ DOMAIN inbox' = 1 .. len + 1
      /\ \A k \in 1 .. len : inbox'[k] = inbox[k]
      /\ inbox'[len + 1] = p
  BY <1>1 DEF TrafficInv, TrafficTyped
<1>3. Given' = Given /\ \A n : OwnResult(n)' = OwnResult(n)
  BY DEF Given, OwnResult
<1>4. ASSUME NEW k \in 0 .. len PROVE Reached(k)' = Reached(k)
  BY <1>2, <1>3 DEF Reached, Behind
<1>5. Reached(len + 1)' = Reached(len) \cup (IF p.type = "points" THEN {Behind(p)} ELSE {})
  <2>1. 1 .. len + 1 = (1 .. len) \cup {len + 1}
    OBVIOUS
  <2>2. {Behind(inbox'[i]) : i \in {i \in 1 .. len + 1 : inbox'[i].type = "points"}}
          = {Behind(inbox[i]) : i \in {i \in 1 .. len : inbox[i].type = "points"}}
              \cup (IF p.type = "points" THEN {Behind(p)} ELSE {})
    BY <1>2, <2>1
  <2>3. QED
    BY <1>3, <2>2 DEF Reached, Behind
<1>7. ASSUME NEW k \in DOMAIN inbox'
      PROVE  /\ inbox'[k].type = "points" =>
                  /\ IsMax(inbox'[k].results[1].cmd_num, Reached(k - 1)')
                  /\ (inbox'[k].results[1].cmd_num % num_cmds) + Len(inbox'[k].results) <= num_cmds
                  /\ \A j \in DOMAIN inbox'[k].results :
                       inbox'[k].results[j] = OwnResult(inbox'[k].results[1].cmd_num + j - 1)
             /\ inbox'[k].type = "end" => IsMax(slots * num_cmds, Reached(k - 1)')
  <2>1. CASE k \in DOMAIN inbox
    <3>1. Reached(k - 1)' = Reached(k - 1) /\ inbox'[k] = inbox[k]
      BY <1>2, <1>4, <2>1
    <3>2. QED
      BY <2>1, <3>1 DEF PointsUnderway
  <2>2. CASE k = len + 1
    <3>1. Reached(k - 1)' = Reached(len) /\ inbox'[k] = p
      BY <1>2, <1>4, <2>2
    <3>2. QED
      BY <1>1, <3>1
  <2>3. QED
    BY <1>2, <2>1, <2>2
<1>8. asked' # <<>> => IsMax(asked'[1].sent, Reached(len + 1)')
  <2> SUFFICES ASSUME asked' # <<>> PROVE IsMax(asked'[1].sent, Reached(len + 1)')
    OBVIOUS
  <2>1. CASE p.type = "points"
    <3>1. IsMax(p.results[1].cmd_num, Reached(len)) /\ asked'[1].sent = Behind(p)
      BY <1>1, <2>1
    <3>2. Reached(len) \subseteq Nat
      BY <1>1, ReachedTyped
    <3>3. p.results[1].cmd_num \in Nat /\ Behind(p) \in Nat /\ p.results[1].cmd_num < Behind(p)
      BY <2>1, PointsPacket
    <3>4. \A m \in Reached(len) : m <= Behind(p)
      BY <3>1, <3>2, <3>3 DEF IsMax
    <3>5. Reached(len + 1)' = Reached(len) \cup {Behind(p)}
      BY <1>5, <2>1
    <3>6. QED
      BY <3>1, <3>3, <3>4, <3>5 DEF IsMax
  <2>2. CASE p.type # "points"
    <3>1. IsMax(asked'[1].sent, Reached(len)) /\ Reached(len + 1)' = Reached(len)
      BY <1>1, <1>5, <2>2
    <3>2. QED
      BY <3>1
  <2>3. QED
    BY <2>1, <2>2
<1>9. QED
  <2>1. \A n : OwnResult(n) = [num |-> request.num % Modulus, id |-> request.id, cmd_num |-> n]
    BY DEF OwnResult
  <2>2. Len(inbox') = len + 1
    BY <1>2
  <2>3. QED
    BY <1>7, <1>8, <2>1, <2>2 DEF PointsUnderway, IsMax, OwnResult

\* The first packet of the inbox is received: if it holds points, from the first on that
\* has not been given.
LEMMA HeadTaken ==
  ASSUME TrafficInv, PointsUnderway, inbox # <<>>, inbox' = Tail(inbox),
         UNCHANGED <<request, asked>>,
         IF inbox[1].type = "points" THEN Given' = Behind(inbox[1]) /\ Given < Behind(inbox[1])
         ELSE Given' = Given
  PROVE  PointsUnderway'
<1>1. inbox \in Seq(XL3Packet)
  BY DEF TrafficInv, TrafficTyped
<1>2. PICK len \in Nat : len + 1 = Len(inbox)
  <2>1. Len(inbox) \in Nat \ {0}
    BY <1>1
  <2>2. Len(inbox) - 1 \in Nat /\ (Len(inbox) - 1) + 1 = Len(inbox)
    BY <2>1
  <2>3. QED
    BY <2>2
<1>3. /\ Len(inbox') = len /\ DOMAIN inbox' = 1 .. len /\ DOMAIN inbox = 1 .. len + 1
      /\ \A k \in 1 .. len : inbox'[k] = inbox[k + 1]
  BY <1>1, <1>2
<1>4. ASSUME NEW k \in 0 .. len PROVE Reached(k + 1) \subseteq Nat /\ Given \in Nat
  BY <1>2, ReachedTyped, GivenTyped
<1>5. ASSUME NEW k \in 0 .. len
      PROVE  Reached(k)' = {Given'} \cup
               {Behind(inbox[i]) : i \in {i \in 2 .. k + 1 : inbox[i].type = "points"}}
  <2>1. \A i \in 1 .. k : i + 1 \in 2 .. k + 1 /\ inbox'[i] = inbox[i + 1]
    BY <1>3
  <2>2. \A i \in 2 .. k + 1 : i - 1 \in 1 .. k /\ inbox'[i - 1] = inbox[i]
    BY <1>3
  <2>3. {Behind(inbox'[i]) : i \in {i \in 1 .. k : inbox'[i].type = "points"}}
          = {Behind(inbox[i]) : i \in {i \in 2 .. k + 1 : inbox[i].type = "points"}}
    <3>1. ASSUME NEW i \in 1 .. k, inbox'[i].type = "points"
          PROVE  \E j \in 2 .. k + 1 : inbox[j].type = "points" /\ Behind(inbox[j]) = Behind(inbox'[i])
      <4>1. i + 1 \in 2 .. k + 1 /\ inbox'[i] = inbox[i + 1]
        BY <2>1
      <4>2. QED
        BY <3>1, <4>1
    <3>2. ASSUME NEW i \in 2 .. k + 1, inbox[i].type = "points"
          PROVE  \E j \in 1 .. k : inbox'[j].type = "points" /\ Behind(inbox'[j]) = Behind(inbox[i])
      <4>1. i - 1 \in 1 .. k /\ inbox'[i - 1] = inbox[i]
        BY <2>2
      <4>2. QED
        BY <3>2, <4>1
    <3>3. \A x : x \in {Behind(inbox'[i]) : i \in {i \in 1 .. k : inbox'[i].type = "points"}}
                 <=> \E i \in 1 .. k : inbox'[i].type = "points" /\ x = Behind(inbox'[i])
      OBVIOUS
    <3>4. \A x : x \in {Behind(inbox[i]) : i \in {i \in 2 .. k + 1 : inbox[i].type = "points"}}
                 <=> \E i \in 2 .. k + 1 : inbox[i].type = "points" /\ x = Behind(inbox[i])
      OBVIOUS
    <3>5. QED
      BY <3>1, <3>2, <3>3, <3>4, Zenon
  <2>4. QED
    BY <2>3 DEF Reached, Behind
<1>6. ASSUME NEW k \in 0 .. len
      PROVE  Reached(k + 1) = {Given} \cup Reached(k)'
  <2>1. 1 .. k + 1 = {1} \cup (2 .. k + 1)
    OBVIOUS
  <2>2. {Behind(inbox[i]) : i \in {i \in 1 .. k + 1 : inbox[i].type = "points"}}
          = {Behind(inbox[i]) : i \in {i \in 2 .. k + 1 : inbox[i].type = "points"}}
              \cup (IF inbox[1].type = "points" THEN {Behind(inbox[1])} ELSE {})
    BY <2>1
  <2>3. QED
    BY <1>5, <2>2 DEF Reached
<1>7. ASSUME NEW k \in 0 .. len, NEW n, IsMax(n, Reached(k + 1))
      PROVE  IsMax(n, Reached(k)')
  <2>1. Given' \in Reached(k)'
    BY <1>5
  <2>2. Given' = Given \/ Given < Given'
    OBVIOUS
  <2>3. n \in Reached(k)'
    <3>1. CASE Given' = Given
      BY <1>6, <1>7, <2>1, <3>1 DEF IsMax
    <3>2. CASE Given < Given'
      <4>1. Given' \in Nat /\ Given \in Nat /\ n \in Nat /\ Given' <= n
        BY <1>4, <1>6, <1>7, <2>1 DEF IsMax
      <4>2. n # Given
        BY <3>2, <4>1
      <4>3. QED
        BY <1>6, <1>7, <4>2 DEF IsMax
    <3>3. QED
      BY <2>2, <3>1, <3>2
  <2>4. QED
    BY <1>6, <1>7, <2>3 DEF IsMax
<1>8. ASSUME NEW k \in DOMAIN inbox'
      PROVE  /\ inbox'[k].type = "points" =>
                  /\ IsMax(inbox'[k].results[1].cmd_num, Reached(k - 1)')
                  /\ (inbox'[k].results[1].cmd_num % num_cmds) + Len(inbox'[k].results) <= num_cmds
                  /\ \A j \in DOMAIN inbox'[k].results :
                       inbox'[k].results[j] = OwnResult(inbox'[k].results[1].cmd_num + j - 1)
             /\ inbox'[k].type = "end" => IsMax(slots * num_cmds, Reached(k - 1)')
  <2>1. /\ k - 1 \in 0 .. len /\ (k - 1) + 1 = k /\ (k + 1) - 1 = k
        /\ k + 1 \in DOMAIN inbox /\ inbox'[k] = inbox[k + 1]
    BY <1>3
  <2>2. \A n : IsMax(n, Reached(k)) => IsMax(n, Reached(k - 1)')
    BY <1>7, <2>1
  <2>3. QED
    BY <2>1, <2>2 DEF PointsUnderway
<1>9. asked # <<>> => IsMax(asked[1].sent, Reached(len)')
  BY <1>2, <1>7 DEF PointsUnderway
<1>10. QED
  <2>1. \A n : OwnResult(n) = [num |-> request.num % Modulus, id |-> request.id, cmd_num |-> n]
    BY DEF OwnResult
  <2>2. Len(inbox') = len
    BY <1>3
  <2>3. asked' # <<>> =>
          /\ Len(asked') = 1 /\ asked'[1].kind = "cald"
          /\ asked'[1].num = request.num % Modulus /\ asked'[1].id = request.id
    BY DEF PointsUnderway
  <2>4. QED
    BY <1>8, <1>9, <2>1, <2>2, <2>3 DEF PointsUnderway, IsMax, OwnResult

\* What the XL3 and the connection do leaves the points in their places.
LEMMA StoredAside ==
  ASSUME CaldInv, UNCHANGED <<request, result, cald, settled>>,
         pc' = pc \/ (pc # "idle" /\ pc' # "idle"),
         request.kind = "cald" /\ settled /\ pc # "idle" /\ PointsUnderway => PointsUnderway'
  PROVE  CaldInv'
<1> SUFFICES ASSUME request.kind = "cald", settled
             PROVE  CaldComplete' /\ (pc' # "idle" => PointsUnderway' /\ PointsStored')
  BY DEF CaldInv
<1>1. CaldComplete /\ (pc # "idle" => PointsUnderway /\ PointsStored)
  BY DEF CaldInv
<1>2. UNCHANGED <<point_buf, adc_buf, current>>
  BY DEF cald
<1>3. CaldComplete'
  BY <1>1, <1>2 DEF CaldComplete, OwnPoints, OwnResult
<1>4. PointsStored => PointsStored'
  BY <1>2 DEF PointsStored, Given, OwnResult
<1>5. QED
  BY <1>1, <1>3, <1>4

LEMMA XL3KeepsPoints ==
  ASSUME TrafficInv, CaldInv, XL3Step \/ Break \/ Reconnect \/ ReadByMain PROVE CaldInv'
<1>1. UNCHANGED <<pc, request, result, cald, settled>>
  BY DEF XL3Step, Acknowledge, SendResults, SendPoints, EndCald, SayMore, Break, Reconnect,
         ReadByMain, command
<1>2. UNCHANGED current
  BY <1>1 DEF cald
<1> SUFFICES ASSUME request.kind = "cald", settled, pc # "idle", PointsUnderway
             PROVE  PointsUnderway'
  BY <1>1, StoredAside
<1>3. asked \in Seq(AskedRequest) /\ inbox \in Seq(XL3Packet)
  BY DEF TrafficInv, TrafficTyped
<1>4. asked # <<>> =>
        /\ Len(asked) = 1 /\ asked[1].kind = "cald"
        /\ asked[1].num = request.num % Modulus /\ asked[1].id = request.id
        /\ IsMax(asked[1].sent, Reached(Len(inbox)))
  BY DEF PointsUnderway
<1>5. \A k \in DOMAIN asked : k = 1 /\ asked # <<>> /\ asked[k].kind # "queue"
  BY <1>3, <1>4
<1>6. ~Acknowledge
  BY <1>5 DEF Acknowledge
<1>7. ~\E n \in 1 .. num_cmds : SendResults(n)
  BY <1>3, <1>4 DEF SendResults
<1>8. ASSUME NEW n \in 1 .. num_cmds, SendPoints(n) PROVE PointsUnderway'
  <2>1. PICK r : r = asked[1]
    OBVIOUS
  <2>2. /\ asked # <<>> /\ r.kind = "cald" /\ r.sent < slots * num_cmds
        /\ (r.sent % num_cmds) + n <= num_cmds
        /\ inbox' = Append(inbox, Packet("points", r, Results(r, r.sent, r.sent + n - 1)))
        /\ asked' = [asked EXCEPT ![1].sent = @ + n]
    BY <1>3, <1>8, <2>1 DEF SendPoints, Say
  <2>3. r \in AskedRequest /\ 1 \in DOMAIN asked
    BY <1>3, <2>1, <2>2
  <2>4. n \in Nat \ {0} /\ r.sent \in Nat
    BY <2>3, Constants DEF AskedRequest
  <2>5. PICK s : s = Results(r, r.sent, r.sent + n - 1)
    OBVIOUS
  <2>6. /\ s \in Seq(Ack) /\ s # <<>> /\ DOMAIN s = 1 .. n
        /\ \A j \in DOMAIN s : s[j] = [num |-> r.num, id |-> r.id, cmd_num |-> r.sent + j - 1]
    <3>1. r \in AskedRequest /\ n \in Nat \ {0}
      BY <2>3, <2>4
    <3>2. QED
      BY <2>5, <3>1, ResultsSound
  <2>7. s[1].cmd_num = r.sent /\ Len(s) = n
    <3>1. 1 \in DOMAIN s
      BY <2>4, <2>6
    <3>2. QED
      BY <2>4, <2>6, <3>1
  <2>8. PICK p : p = Packet("points", r, s)
    OBVIOUS
  <2>9. p.type = "points" /\ p.results = s
    BY <2>8 DEF Packet
  <2>10. p \in XL3Packet
    BY <2>3, <2>6, <2>8 DEF Packet, XL3Packet, AskedRequest
  <2>11. PacketSound(p)
    BY <2>2, <2>6, <2>7, <2>9 DEF PacketSound
  <2>12. \A j \in DOMAIN p.results : p.results[j] = OwnResult(p.results[1].cmd_num + j - 1)
    BY <1>4, <2>1, <2>2, <2>6, <2>7, <2>9 DEF OwnResult
  <2>13. PICK q : q = [r EXCEPT !.sent = @ + n]
    OBVIOUS
  <2>14. q \in AskedRequest /\ q.kind = r.kind /\ q.num = r.num /\ q.id = r.id /\ q.sent = r.sent + n
    BY <2>3, <2>4, <2>13, GetsOn
  <2>15. asked' = [asked EXCEPT ![1] = q]
    BY <2>1, <2>2, <2>3, <2>13
  <2>16. Len(asked') = 1 /\ asked'[1] = q
    BY <1>3, <1>4, <2>2, <2>3, <2>15
  <2>17. asked'[1].sent = Behind(p)
    BY <2>7, <2>9, <2>14, <2>16 DEF Behind
  <2>18. IsMax(p.results[1].cmd_num, Reached(Len(inbox)))
    BY <1>4, <2>1, <2>2, <2>7, <2>9
  <2>19. QED
    BY <1>1, <1>2, <1>4, <2>1, <2>2, <2>5, <2>7, <2>8, <2>9, <2>10, <2>11, <2>12, <2>14, <2>16,
       <2>17, <2>18, MoreUnderway
<1>9. CASE EndCald
  <2>1. PICK r : r = asked[1]
    OBVIOUS
  <2>2. /\ asked # <<>> /\ r.sent = slots * num_cmds
        /\ inbox' = Append(inbox, Packet("end", r, <<>>)) /\ asked' = Tail(asked)
    BY <1>3, <1>9, <2>1 DEF EndCald, Say
  <2>3. asked' = <<>> /\ r \in AskedRequest
    BY <1>3, <1>4, <2>1, <2>2
  <2>4. PICK p : p = Packet("end", r, <<>>)
    OBVIOUS
  <2>5. p \in XL3Packet /\ PacketSound(p) /\ p.type = "end"
    BY <2>3, <2>4 DEF Packet, XL3Packet, AskedRequest, PacketSound
  <2>6. IsMax(slots * num_cmds, Reached(Len(inbox)))
    BY <1>4, <2>1, <2>2
  <2>7. QED
    BY <1>1, <1>2, <2>2, <2>3, <2>4, <2>5, <2>6, MoreUnderway
<1>10. CASE SayMore
  <2>1. inbox' = Append(inbox, Noise) /\ UNCHANGED asked
    BY <1>10 DEF SayMore, Say
  <2>2. Noise \in XL3Packet /\ PacketSound(Noise) /\ Noise.type \notin {"points", "end"}
    BY Constants DEF Noise, Packet, NoRequest, XL3Packet, PacketSound
  <2>3. QED
    BY <1>1, <1>2, <1>4, <2>1, <2>2, MoreUnderway
<1>11. CASE Break
  <2>1. asked' = <<>> /\ UNCHANGED inbox
    BY <1>11 DEF Break
  <2>2. \A k, n : IsMax(n, Reached(k))' <=> IsMax(n, Reached(k))
    BY <1>2, <2>1 DEF IsMax, Reached, Given, Behind
  <2>3. QED
    BY <1>1, <1>2, <2>1 DEF PointsUnderway, IsMax, Reached, Given, Behind, OwnResult
<1>12. CASE Reconnect \/ ReadByMain
  BY <1>12 DEF Reconnect, ReadByMain
<1>13. QED
  BY <1>6, <1>7, <1>8, <1>9, <1>10, <1>11, <1>12 DEF XL3Step

\* A test begins with nothing given.
LEMMA StartKeepsPoints == ASSUME TrafficInv, CaldInv, StartCald PROVE CaldInv'
<1>1. /\ pc' = "select" /\ adc_buf' = <<>> /\ point_buf' = <<>> /\ current' = <<0, 0>>
      /\ settled' = (asked = <<>> /\ inbox = <<>>) /\ UNCHANGED inbox
      /\ request' = [kind |-> "cald", num |-> command_number, id |-> request.id + 1]
      /\ asked' = IF broken THEN asked
                  ELSE Append(asked, [kind |-> "cald", num |-> command_number % Modulus,
                                      id |-> request.id + 1, begun |-> FALSE, sent |-> 0])
  BY DEF StartCald, Ask
<1> SUFFICES ASSUME settled' PROVE PointsUnderway' /\ PointsStored'
  BY <1>1 DEF CaldInv, CaldComplete
<1>2. asked = <<>> /\ inbox' = <<>>
  BY <1>1
<1>3. num_cmds \in Nat \ {0}
  BY Constants
<1>4. Given' = 0
  <2>1. 0 * num_cmds + 0 = 0
    BY <1>3
  <2>2. QED
    BY <1>1, <2>1 DEF Given, PlaceOf
<1>5. IsMax(0, Reached(0)')
  <2>1. Reached(0)' = {0}
    BY <1>4 DEF Reached
  <2>2. QED
    BY <2>1 DEF IsMax
<1>6. PointsUnderway'
  <2>1. DOMAIN inbox' = {} /\ Len(inbox') = 0
    BY <1>2
  <2>2. PICK q : q = [kind |-> "cald", num |-> command_number % Modulus,
                      id |-> request.id + 1, begun |-> FALSE, sent |-> 0]
    OBVIOUS
  <2>3. /\ q.kind = "cald" /\ q.sent = 0
        /\ q.num = request'.num % Modulus /\ q.id = request'.id
    BY <1>1, <2>2
  <2>4. Append(<<>>, q) \in Seq({q}) /\ Len(Append(<<>>, q)) = 1 /\ Append(<<>>, q)[1] = q
    OBVIOUS
  <2>5. asked' # <<>> => asked' = Append(<<>>, q)
    BY <1>1, <1>2, <2>2
  <2>6. asked' # <<>> =>
          /\ Len(asked') = 1 /\ asked'[1].kind = "cald" /\ asked'[1].sent = 0
          /\ asked'[1].num = request'.num % Modulus /\ asked'[1].id = request'.id
    BY <2>3, <2>4, <2>5
  <2>7. QED
    BY <1>5, <2>1, <2>6 DEF PointsUnderway, IsMax
<1>7. PointsStored'
  <2>1. \A cell \in Cells : PlaceOf(cell) \in Nat
    BY PlaceOfCell, Constants DEF Cells
  <2>2. {cell \in Cells : PlaceOf(cell) < 0} = {}
    BY <2>1
  <2>3. <<>> = [cell \in {} |-> OwnResult(PlaceOf(cell))']
    OBVIOUS
  <2>4. current'[2] <= num_cmds
    BY <1>1, <1>3
  <2>5. adc_buf' = [cell \in {cell \in Cells : PlaceOf(cell) < Given'} |-> OwnResult(PlaceOf(cell))']
    BY <1>1, <1>4, <2>2, <2>3
  <2>6. QED
    BY <1>1, <2>4, <2>5 DEF PointsStored, OwnResult
<1>8. QED
  BY <1>6, <1>7

\* The next points are placed behind the last one, in the next slot if this one is full.
LEMMA PlaceOfPoints ==
  ASSUME NEW slot0 \in Nat, NEW point0 \in Nat, current = <<slot0, point0>>, point0 <= num_cmds,
         NEW p, p.results[1].cmd_num = Given, NEW n \in Nat, (Given % num_cmds) + n <= num_cmds
  PROVE  \E slot \in Nat, first \in Nat :
           /\ PlaceFor(p) = <<slot, first>> /\ slot * num_cmds + first = Given
           /\ first + n <= num_cmds
<1>1. num_cmds \in Nat \ {0}
  BY Constants
<1>2. Given = slot0 * num_cmds + point0 /\ Given \in Nat
  BY PlaceOfCell DEF Given
<1>3. SlotOf(p.results[1]) = Given \div num_cmds
  BY DEF SlotOf
<1>4. CASE point0 < num_cmds
  <2>1. Given \div num_cmds = slot0 /\ Given % num_cmds = point0
    <3>1. PICK g \in Nat : g = Given
      BY <1>2
    <3>2. g \div num_cmds = slot0 /\ g % num_cmds = point0
      <4>1. PICK c \in Nat : c = slot0 * num_cmds
        BY PlaceOfCell
      <4>2. g = c + point0
        BY <1>2, <3>1, <4>1
      <4>3. QED
        BY <1>1, <1>4, <4>1, <4>2, DivUnique
    <3>3. QED
      BY <3>1, <3>2
  <2>2. PlaceFor(p) = <<slot0, point0>>
    BY <1>3, <2>1 DEF PlaceFor
  <2>3. QED
    BY <1>2, <2>1, <2>2
<1>5. CASE point0 = num_cmds
  <2>1. PICK slot \in Nat : slot = slot0 + 1
    OBVIOUS
  <2>2. Given = slot * num_cmds + 0
    <3>1. (slot0 + 1) * num_cmds + 0 = slot0 * num_cmds + num_cmds
      BY <1>1
    <3>2. QED
      BY <1>2, <1>5, <2>1, <3>1
  <2>3. Given \div num_cmds = slot /\ Given % num_cmds = 0
    <3>1. PICK g \in Nat : g = Given
      BY <1>2
    <3>2. g = slot * num_cmds
      BY <1>1, <2>2, <3>1
    <3>3. QED
      BY <1>1, <3>1, <3>2, DivExact
  <2>4. PlaceFor(p) = <<slot, 0>>
    <3>1. current[1] = slot0 /\ slot # slot0
      BY <2>1
    <3>2. QED
      BY <1>3, <2>3, <3>1 DEF PlaceFor
  <2>5. 0 + n <= num_cmds
    BY <2>3
  <2>6. QED
    BY <2>2, <2>4, <2>5
<1>6. QED
  BY <1>1, <1>4, <1>5

\* The cells of n points within a slot are those between the points before and behind them.
LEMMA CellsBetween ==
  ASSUME NEW slot \in 0 .. slots - 1, NEW first \in Nat, NEW n \in Nat, first + n <= num_cmds,
         NEW g \in Nat, slot * num_cmds + first = g
  PROVE  {cell \in Cells : PlaceOf(cell) < g + n}
           = ({slot} \X (first .. first + n - 1)) \cup {cell \in Cells : PlaceOf(cell) < g}
<1>1. num_cmds \in Nat \ {0} /\ slots \in Nat \ {0} /\ slot \in Nat
  BY Constants
<1>2. PICK s \in Nat : s = slot * num_cmds
  BY <1>1, PlaceOfCell
<1>3. s + first = g
  BY <1>2
<1>4. ASSUME NEW b \in first .. first + n - 1
      PROVE  <<slot, b>> \in Cells /\ PlaceOf(<<slot, b>>) < g + n
  <2>1. b \in Nat /\ b \in 0 .. num_cmds - 1
    BY <1>1
  <2>2. PlaceOf(<<slot, b>>) = s + b
    BY <1>1, <1>2, <2>1, PlaceOfCell
  <2>3. s + b < g + n
    BY <1>3, <2>1
  <2>4. QED
    BY <2>1, <2>2, <2>3 DEF Cells
<1>5. ASSUME NEW a \in 0 .. slots - 1, NEW b \in 0 .. num_cmds - 1,
             PlaceOf(<<a, b>>) < g + n, ~(PlaceOf(<<a, b>>) < g)
      PROVE  a = slot /\ b \in first .. first + n - 1
  <2>1. a \in Nat /\ b \in Nat
    BY <1>1
  <2>2. PICK c \in Nat : c = a * num_cmds
    BY <2>1, PlaceOfCell
  <2>3. c + b < s + first + n /\ c + b >= s + first
    <3>1. PlaceOf(<<a, b>>) = c + b
      BY <2>1, <2>2, PlaceOfCell
    <3>2. QED
      BY <1>3, <1>5, <2>1, <3>1
  <2>4. \A i, j, m \in Nat : i < j => i * m + m <= j * m
    <3>1. \A i, j, m \in Nat : i <= j => i * m <= j * m
      OBVIOUS
    <3>2. \A i, m \in Nat : (i + 1) * m = i * m + m
      OBVIOUS
    <3>3. ASSUME NEW i \in Nat, NEW j \in Nat, NEW m \in Nat, i < j
          PROVE  i * m + m <= j * m
      <4>1. i + 1 \in Nat /\ i + 1 <= j
        BY <3>3
      <4>2. (i + 1) * m <= j * m
        BY <3>1, <4>1
      <4>3. QED
        BY <3>2, <4>2
    <3>4. QED
      BY <3>3
  <2>5. ~(a < slot)
    <3>1. a < slot => c + num_cmds <= s
      BY <1>1, <1>2, <2>1, <2>2, <2>4
    <3>2. QED
      BY <1>1, <2>1, <2>3, <3>1
  <2>6. ~(slot < a)
    <3>1. slot < a => s + num_cmds <= c
      BY <1>1, <1>2, <2>1, <2>2, <2>4
    <3>2. QED
      BY <1>1, <2>1, <2>3, <3>1
  <2>7. a = slot
    BY <1>1, <2>1, <2>5, <2>6
  <2>8. c = s
    BY <1>2, <2>2, <2>7
  <2>9. b \in first .. first + n - 1
    BY <2>1, <2>3, <2>8
  <2>10. QED
    BY <2>7, <2>9
<1>6. ASSUME NEW cell \in Cells, PlaceOf(cell) < g + n
      PROVE  cell \in {slot} \X (first .. first + n - 1) \/ PlaceOf(cell) < g
  <2>1. PICK a \in 0 .. slots - 1, b \in 0 .. num_cmds - 1 : cell = <<a, b>>
    BY DEF Cells
  <2>2. QED
    BY <1>5, <1>6, <2>1
<1>7. ASSUME NEW cell \in {slot} \X (first .. first + n - 1)
      PROVE  cell \in Cells /\ PlaceOf(cell) < g + n
  <2>1. PICK b \in first .. first + n - 1 : cell = <<slot, b>>
    OBVIOUS
  <2>2. QED
    BY <1>4, <2>1
<1>8. ASSUME NEW cell \in Cells, PlaceOf(cell) < g PROVE PlaceOf(cell) < g + n
  <2>1. PlaceOf(cell) \in Nat
    BY <1>1, PlaceOfCell DEF Cells
  <2>2. QED
    BY <1>8, <2>1
<1>9. QED
  BY <1>6, <1>7, <1>8

LEMMA CollectKeepsPoints ==
  ASSUME TrafficInv, TrafficInv', CaldInv, CollectPoints PROVE CaldInv'
<1>1. PICK p : p = Head(inbox)
  OBVIOUS
<1>2. /\ pc # "idle" /\ pc' = "select" /\ inbox # <<>> /\ inbox' = Tail(inbox)
      /\ request.kind = "cald" /\ p.type = "points"
      /\ UNCHANGED <<asked, request, settled>>
  BY <1>1 DEF CollectPoints, Receiving
<1> SUFFICES ASSUME settled PROVE PointsUnderway' /\ PointsStored'
  BY <1>2 DEF CaldInv, CaldComplete
<1>3. PointsUnderway /\ PointsStored
  BY <1>2 DEF CaldInv
<1>4. 1 \in DOMAIN inbox /\ p = inbox[1]
  BY <1>1, <1>2 DEF TrafficInv, TrafficTyped
<1>5. PICK n \in Nat \ {0} : n = Len(p.results)
  BY <1>2, <1>4, InboxSound, PointsPacket
<1>6. /\ p.results[1].cmd_num = Given /\ (Given % num_cmds) + n <= num_cmds
      /\ \A j \in 1 .. n : p.results[j] = OwnResult(Given + j - 1)
      /\ Behind(p) = Given + n
  <2>1. /\ IsMax(p.results[1].cmd_num, Reached(1 - 1))
        /\ (p.results[1].cmd_num % num_cmds) + n <= num_cmds
        /\ \A j \in DOMAIN p.results : p.results[j] = OwnResult(p.results[1].cmd_num + j - 1)
    BY <1>2, <1>3, <1>4, <1>5 DEF PointsUnderway
  <2>2. Reached(1 - 1) = {Given}
    BY DEF Reached
  <2>3. p.results[1].cmd_num = Given
    BY <2>1, <2>2 DEF IsMax
  <2>4. DOMAIN p.results = 1 .. n
    BY <1>2, <1>4, <1>5, InboxSound, PointsPacket
  <2>5. QED
    BY <1>5, <2>1, <2>3, <2>4 DEF Behind
<1>7. PICK slot0 \in Nat, point0 \in Nat : current = <<slot0, point0>> /\ point0 <= num_cmds
  BY <1>3, Constants DEF PointsStored, TrafficInv, CTypeOK
<1>8. PICK slot \in Nat, first \in Nat :
        /\ PlaceFor(p) = <<slot, first>> /\ slot * num_cmds + first = Given
        /\ first + n <= num_cmds
  BY <1>6, <1>7, PlaceOfPoints
<1>9. PICK cells : cells = {slot} \X (first .. first + n - 1)
  OBVIOUS
<1>10. PICK new : new = [cell \in cells |-> p.results[cell[2] - first + 1]]
  OBVIOUS
<1>11. /\ adc_buf' = Over(new, adc_buf)
       /\ point_buf' = Over([cell \in {<<0, 0>>} |-> p.results[n]], Over(new, point_buf))
       /\ current' = <<slot, first + n>>
  <2>1. PlaceFor(p)[1] = slot /\ PlaceFor(p)[2] = first
    BY <1>8
  <2>2. cells = {slot} \X (first .. (first + n) - 1)
    BY <1>9
  <2>3. QED
    BY <1>1, <1>5, <1>10, <2>1, <2>2 DEF CollectPoints
<1>12. slot \in 0 .. slots - 1
  BY <1>8, <1>11, Constants DEF TrafficInv, CTypeOK
<1>13. Given \in Nat /\ num_cmds \in Nat
  BY GivenTyped, Constants
<1>14. Given' = Given + n
  <2>1. PICK s \in Nat : s = slot * num_cmds
    BY PlaceOfCell
  <2>2. Given' = slot * num_cmds + (first + n)
    BY <1>11 DEF Given, PlaceOf
  <2>3. Given' = s + (first + n) /\ s + first = Given
    BY <1>8, <2>1, <2>2
  <2>4. QED
    BY <1>13, <2>3
<1>15. PointsUnderway'
  <2>1. inbox[1].type = "points" /\ Given' = Behind(inbox[1]) /\ Given < Behind(inbox[1])
    BY <1>2, <1>4, <1>6, <1>13, <1>14
  <2>2. QED
    BY <1>2, <1>3, <2>1, HeadTaken
<1>16. PICK placed : placed = {cell \in Cells : PlaceOf(cell) < Given}
  OBVIOUS
<1>17. {cell \in Cells : PlaceOf(cell) < Given'} = cells \cup placed
  BY <1>8, <1>9, <1>12, <1>13, <1>14, <1>16, CellsBetween
<1>18. /\ adc_buf = [cell \in placed |-> OwnResult(PlaceOf(cell))]
       /\ DOMAIN point_buf = placed
       /\ \A cell \in placed \ {<<0, 0>>} : point_buf[cell] = adc_buf[cell]
  BY <1>3, <1>16 DEF PointsStored
<1>19. ASSUME NEW cell \in cells PROVE new[cell] = OwnResult(PlaceOf(cell))
  <2>1. PICK b \in first .. first + n - 1 : cell = <<slot, b>>
    BY <1>9
  <2>2. PICK j \in 1 .. n : j = b - first + 1
    BY <1>8
  <2>3. new[cell] = OwnResult(Given + j - 1)
    BY <1>6, <1>10, <2>1, <2>2
  <2>4. Given + j - 1 = PlaceOf(cell)
    <3>1. PICK s \in Nat : s = slot * num_cmds
      BY PlaceOfCell
    <3>2. b \in Nat
      BY <1>8
    <3>3. PlaceOf(cell) = s + b
      BY <2>1, <3>1, <3>2, PlaceOfCell
    <3>4. s + first = Given
      BY <1>8, <3>1
    <3>5. QED
      BY <1>13, <2>2, <3>2, <3>3, <3>4
  <2>5. QED
    BY <2>3, <2>4
<1>20. adc_buf' = [cell \in cells \cup placed |-> OwnResult(PlaceOf(cell))]
  <2>1. DOMAIN new = cells /\ DOMAIN adc_buf = placed
    BY <1>10, <1>18
  <2>2. adc_buf' = [cell \in cells \cup placed |-> IF cell \in cells THEN new[cell] ELSE adc_buf[cell]]
    BY <1>11, <2>1 DEF Over
  <2>3. \A cell \in placed : adc_buf[cell] = OwnResult(PlaceOf(cell))
    BY <1>18
  <2>4. QED
    BY <1>19, <2>2, <2>3
<1>21. <<0, 0>> \in cells \cup placed
  <2>1. <<0, 0>> \in Cells
    BY Constants DEF Cells
  <2>2. PlaceOf(<<0, 0>>) = 0
    <3>1. 0 * num_cmds + 0 = 0
      BY <1>13
    <3>2. QED
      BY <3>1 DEF PlaceOf
  <2>3. QED
    BY <1>13, <1>14, <1>17, <2>1, <2>2
<1>22. /\ DOMAIN point_buf' = DOMAIN adc_buf'
       /\ \A cell \in DOMAIN adc_buf' \ {<<0, 0>>} : point_buf'[cell] = adc_buf'[cell]
  <2>1. DOMAIN new = cells
    BY <1>10
  <2>2. PICK over : over = Over(new, point_buf)
    OBVIOUS
  <2>3. over = [cell \in cells \cup placed |-> IF cell \in cells THEN new[cell] ELSE point_buf[cell]]
    BY <1>18, <2>1, <2>2 DEF Over
  <2>4. point_buf' = [cell \in {<<0, 0>>} \cup (cells \cup placed) |->
                        IF cell \in {<<0, 0>>} THEN p.results[n] ELSE over[cell]]
    <3>1. DOMAIN over = cells \cup placed
      BY <2>3
    <3>2. PICK zero : zero = [cell \in {<<0, 0>>} |-> p.results[n]]
      OBVIOUS
    <3>3. DOMAIN zero = {<<0, 0>>} /\ \A cell \in {<<0, 0>>} : zero[cell] = p.results[n]
      BY <3>2
    <3>4. point_buf' = [cell \in {<<0, 0>>} \cup (cells \cup placed) |->
                          IF cell \in {<<0, 0>>} THEN zero[cell] ELSE over[cell]]
      BY <1>11, <2>2, <3>1, <3>2, <3>3 DEF Over
    <3>5. QED
      BY <3>3, <3>4
  <2>5. DOMAIN point_buf' = cells \cup placed /\ DOMAIN adc_buf' = cells \cup placed
    BY <1>20, <1>21, <2>4
  <2>6. ASSUME NEW cell \in cells \cup placed, cell # <<0, 0>>
        PROVE  point_buf'[cell] = adc_buf'[cell]
    <3>1. point_buf'[cell] = over[cell]
      BY <2>4, <2>6
    <3>2. over[cell] = IF cell \in cells THEN new[cell] ELSE point_buf[cell]
      BY <2>3
    <3>3. adc_buf'[cell] = OwnResult(PlaceOf(cell))
      BY <1>20
    <3>4. CASE cell \in cells
      BY <1>19, <3>1, <3>2, <3>3, <3>4
    <3>5. CASE cell \in placed /\ cell \notin cells
      BY <1>18, <2>6, <3>1, <3>2, <3>3, <3>5
    <3>6. QED
      BY <3>4, <3>5
  <2>7. QED
    BY <2>5, <2>6
<1>23. current'[2] <= num_cmds
  BY <1>8, <1>11
<1>24. PointsStored'
  <2>1. adc_buf' = [cell \in {cell \in Cells : PlaceOf(cell) < Given'} |-> OwnResult(PlaceOf(cell))]
    BY <1>17, <1>20
  <2>2. \A c : OwnResult(c)' = OwnResult(c)
    BY <1>2 DEF OwnResult
  <2>3. QED
    BY <1>2, <1>22, <1>23, <2>1 DEF PointsStored, OwnResult
<1>25. QED
  BY <1>15, <1>24

\* A test that is over has all its points, or says that it has not.
LEMMA FinishKeepsPoints == ASSUME TrafficInv, CaldInv, FinishCald PROVE CaldInv'
<1>1. /\ pc # "idle" /\ pc' = "idle" /\ inbox # <<>> /\ Head(inbox).type = "end"
      /\ request.kind = "cald" /\ UNCHANGED <<request, settled, cald>>
  BY DEF FinishCald, Receiving, Return
<1>2. UNCHANGED <<point_buf, adc_buf>>
  BY <1>1 DEF cald
<1> SUFFICES ASSUME settled
             PROVE  adc_buf = OwnPoints /\ DOMAIN point_buf = Cells
                    /\ \A cell \in Cells \ {<<0, 0>>} : point_buf[cell] = OwnPoints[cell]
  BY <1>1, <1>2 DEF CaldInv, CaldComplete, OwnPoints, OwnResult
<1>3. PointsUnderway /\ PointsStored
  BY <1>1 DEF CaldInv
<1>4. Given = slots * num_cmds
  <2>1. 1 \in DOMAIN inbox /\ inbox[1].type = "end"
    BY <1>1 DEF TrafficInv, TrafficTyped
  <2>2. IsMax(slots * num_cmds, Reached(1 - 1))
    BY <1>3, <2>1 DEF PointsUnderway
  <2>3. Reached(1 - 1) = {Given}
    BY DEF Reached
  <2>4. QED
    BY <2>2, <2>3 DEF IsMax
<1>5. ASSUME NEW cell \in Cells PROVE PlaceOf(cell) < Given
  <2>1. PICK a \in 0 .. slots - 1, b \in 0 .. num_cmds - 1 : cell = <<a, b>>
    BY DEF Cells
  <2>2. a \in Nat /\ b \in Nat /\ a + 1 \in Nat /\ a + 1 <= slots
        /\ num_cmds \in Nat /\ slots \in Nat
    BY Constants
  <2>3. PICK c \in Nat : c = a * num_cmds
    BY <2>2, PlaceOfCell
  <2>4. PlaceOf(cell) = c + b
    BY <2>1, <2>2, <2>3, PlaceOfCell
  <2>5. (a + 1) * num_cmds <= slots * num_cmds
    <3>1. \A i, j, m \in Nat : i <= j => i * m <= j * m
      OBVIOUS
    <3>2. QED
      BY <2>2, <3>1
  <2>6. (a + 1) * num_cmds = a * num_cmds + num_cmds
    BY <2>2
  <2>7. PICK d \in Int : d = slots * num_cmds
    BY <2>2
  <2>8. c + num_cmds <= d
    BY <2>3, <2>5, <2>6, <2>7
  <2>9. QED
    BY <1>4, <2>2, <2>4, <2>7, <2>8
<1>6. {cell \in Cells : PlaceOf(cell) < Given} = Cells
  BY <1>5
<1>7. adc_buf = OwnPoints
  BY <1>3, <1>6 DEF PointsStored, OwnPoints
<1>8. DOMAIN OwnPoints = Cells
  BY DEF OwnPoints
<1>9. QED
  BY <1>3, <1>7, <1>8 DEF PointsStored

LEMMA WaitKeepsPoints ==
  ASSUME TrafficInv, CaldInv, Ignore \/ TimeOut \/ Closed PROVE CaldInv'
<1>1. CASE Ignore
  <2>1. /\ pc # "idle" /\ pc' # "idle" /\ inbox # <<>> /\ inbox' = Tail(inbox)
        /\ Head(inbox).type \notin Wanted
        /\ UNCHANGED <<asked, request, result, cald, settled>>
    BY <1>1 DEF Ignore, Receiving
  <2>2. ASSUME request.kind = "cald", PointsUnderway PROVE PointsUnderway'
    <3>1. inbox[1].type # "points"
      BY <2>1, <2>2 DEF Wanted, TrafficInv, TrafficTyped
    <3>2. Given' = Given
      BY <2>1 DEF Given, cald
    <3>3. QED
      BY <2>1, <2>2, <3>1, <3>2, HeadTaken
  <2>3. QED
    BY <2>1, <2>2, StoredAside
<1>2. CASE TimeOut \/ Closed
  <2>1. pc' = "idle" /\ result' # 0
    BY <1>2 DEF TimeOut, Closed, Return
  <2>2. QED
    BY <2>1 DEF CaldInv, CaldComplete
<1>3. QED
  BY <1>1, <1>2

\* Commands that read collect no points.
LEMMA ReadsAside ==
  ASSUME TrafficInv,
         QueueCommands \/ ReadReply \/ ScanStored \/ EndScan \/ ReceiveAcks \/ CollectAck \/ EndOfAcks
  PROVE  CaldInv'
<1>1. request'.kind = "queue"
  <2>1. CASE QueueCommands
    BY <2>1 DEF QueueCommands, Ask
  <2>2. CASE ReadReply \/ ScanStored \/ EndScan \/ CollectAck \/ EndOfAcks
    <3>1. pc \in {"reply", "scan", "acks"} /\ UNCHANGED request
      BY <2>2 DEF ReadReply, ScanStored, EndScan, CollectAck, EndOfAcks
    <3>2. QED
      BY <3>1 DEF TrafficInv, PlacesMatch
  <2>3. CASE ReceiveAcks
    BY <2>3 DEF ReceiveAcks
  <2>4. QED
    BY <2>1, <2>2, <2>3
<1>2. QED
  BY <1>1 DEF CaldInv

LEMMA CaldStep == TrafficInv /\ TrafficInv' /\ CaldInv /\ [Next]_vars => CaldInv'
<1> SUFFICES ASSUME TrafficInv, TrafficInv', CaldInv, [Next]_vars PROVE CaldInv'
  OBVIOUS
<1>1. CASE XL3Step \/ Break \/ Reconnect \/ ReadByMain
  BY <1>1, XL3KeepsPoints
<1>2. CASE CommandStep
  BY <1>2, ReadsAside, CollectKeepsPoints, FinishKeepsPoints, WaitKeepsPoints DEF CommandStep
<1>3. CASE QueueCommands \/ StartCald
  BY <1>3, ReadsAside, StartKeepsPoints
<1>4. CASE UNCHANGED vars
  <2>1. UNCHANGED <<inbox, asked, request, result, cald, settled, pc, current>>
    BY <1>4 DEF vars, xl3, command, cald
  <2>2. PointsUnderway => PointsUnderway'
    BY <2>1 DEF PointsUnderway, IsMax, Reached, Given, Behind, OwnResult
  <2>3. QED
    BY <2>1, <2>2, StoredAside
<1>5. QED
  BY <1>1, <1>2, <1>3, <1>4 DEF Next

\* Before the first command nothing has been collected.
LEMMA CollectorInit == Init => CollectorInv
BY TrafficInit DEF CollectorInv, CaldInv, Init, NoRequest

LEMMA CollectorStep == CollectorInv /\ [Next]_vars => CollectorInv'
BY TrafficStep, CaldStep DEF CollectorInv

-----------------------------------------------------------------------------
(* Theorems                                                                 *)

\* What is underway and what has been put aside cannot be taken for the results of the
\* present command (wait_for_multifc_results), and the points of a test follow one
\* another into their places (wait_for_cald_test_results).
THEOREM CollectorInvHolds == Spec => []CollectorInv
BY CollectorInit, CollectorStep, PTL DEF Spec

\* The variables keep their types; no array is written past its end.
THEOREM CollectorTypeCorrect == Spec => []CTypeOK
<1>1. CollectorInv => CTypeOK
  BY DEF CollectorInv, TrafficInv
<1>2. QED
  BY <1>1, CollectorInvHolds, PTL

\* wait_for_multifc_results returns the results of its own command, in order, and all of
\* them if it returns 0.
THEOREM ResultsMine == Spec => []ResultsAreMine
<1>1. CollectorInv => ResultsAreMine
  BY DEF CollectorInv, TrafficInv
<1>2. QED
  BY <1>1, CollectorInvHolds, PTL

\* Nothing that a command waits for is put aside.
THEOREM StoredStale == Spec => []StoredIsStale
<1>1. CollectorInv => StoredIsStale
  BY DEF CollectorInv, TrafficInv
<1>2. QED
  BY <1>1, CollectorInvHolds, PTL

\* wait_for_multifc_results gives up only while a result is missing.
THEOREM ErrorsReal == Spec => []ErrorsAreReal
<1>1. CollectorInv => ErrorsAreReal
  BY DEF CollectorInv, TrafficInv
<1>2. QED
  BY <1>1, CollectorInvHolds, PTL

\* A CALD test that begins with nothing underway and returns without an error has all its
\* points, each in its place (wait_for_cald_test_results).
THEOREM CaldCompletes == Spec => []CaldComplete
<1>1. CollectorInv => CaldComplete
  <2>1. request.kind = "cald" /\ settled => (CaldInv => CaldComplete)
    BY DEF CaldInv
  <2>2. ~(request.kind = "cald" /\ settled) => CaldComplete
    BY DEF CaldComplete
  <2>3. QED
    BY <2>1, <2>2 DEF CollectorInv
<1>2. QED
  BY <1>1, CollectorInvHolds, PTL
=============================================================================
