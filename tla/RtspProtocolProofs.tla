------------------------ MODULE RtspProtocolProofs ------------------------
(***************************************************************************)
(* Proofs about RtspProtocol for every length of URLs, tracks and          *)
(* sessions the code lets through, every description, every Transport line *)
(* and every answer: first parseSDP, then parseTransportParams, then the   *)
(* building of a request, then parse as a whole.                           *)
(***************************************************************************)
EXTENDS RtspProtocol, SequenceTheorems, TLAPS

---------------------------------------------------------------------------
(* parseSDP                                                                *)

\* The section the line before the current one belongs to.
Current == SectionOf(sdpLine - 1)

\* A section outside of which the outer loop is: it is none, not one of a video
\* stream, or one whose m= line ended another video section.
Passed(s) ==
  s # 0 /\ sdp[s] = "video" => SectionOf(s - 1) # 0 /\ sdp[SectionOf(s - 1)] = "video"

LoopInv ==
  /\ loop = "before" => Current = 0
  /\ loop = "outer" => Passed(Current)
  /\ loop = "section" => Current # 0 /\ sdp[Current] = "video"

\* The part of LastControlFound that the lines read so far decide.
FoundSoFar == loop # "returned" => \A i \in Eligible : i < sdpLine => fControlPath >= i

SdpShape == sdp \in Seq(Kinds) /\ SdpTypeOK

SdpInv == SdpShape /\ LoopInv /\ FoundSoFar /\ LastControlFound /\ ControlFromVideo

\* A line begins a section or belongs to that of the line before.
LEMMA SectionStep ==
  /\ SectionOf(0) = 0
  /\ \A i \in Nat \ {0} : SectionOf(i) = IF IsMedia(i) THEN i ELSE SectionOf(i - 1)
<1> DEFINE S(i) == {j \in 1 .. i : IsMedia(j)} \cup {0}
<1>1. SectionOf(0) = 0
  <2>1. S(0) = {0}
    OBVIOUS
  <2>2. Max({0}) = 0
    BY DEF Max
  <2> QED BY <2>1, <2>2 DEF SectionOf
<1>2. ASSUME NEW i \in Nat \ {0}, IsMedia(i) PROVE SectionOf(i) = i
  <2>1. i \in S(i) /\ \A y \in S(i) : y \in Int /\ i >= y
    BY <1>2
  <2> HIDE DEF S
  <2>2. \A x \in S(i) : (\A y \in S(i) : x >= y) => x = i
    BY <2>1
  <2>3. Max(S(i)) = i
    BY <2>1, <2>2 DEF Max
  <2> QED BY <2>3 DEF SectionOf, S
<1>3. ASSUME NEW i \in Nat \ {0}, ~IsMedia(i) PROVE SectionOf(i) = SectionOf(i - 1)
  <2>1. S(i) = S(i - 1)
    <3>1. \A j : j \in 1 .. i /\ IsMedia(j) <=> j \in 1 .. i - 1 /\ IsMedia(j)
      BY <1>3
    <3> QED BY <3>1
  <2> QED BY <2>1 DEF SectionOf
<1> QED BY <1>1, <1>2, <1>3

LEMMA SameDescription ==
  ASSUME sdp' = sdp
  PROVE  /\ \A i : SectionOf(i)' = SectionOf(i)
         /\ Eligible' = Eligible
BY DEF SectionOf, IsMedia, Eligible, Valid

\* What makes a line eligible, by the section it is in.
LEMMA EligibleIn ==
  ASSUME NEW i \in Eligible
  PROVE  /\ i \in 1 .. Len(sdp) /\ sdp[i] = "control" /\ (\A j \in 1 .. i : sdp[j] # "invalid")
         /\ SectionOf(i) # 0 /\ sdp[SectionOf(i)] = "video" /\ ~Passed(SectionOf(i))
BY DEF Eligible, Valid, Passed

\* The two ways on from a line that was read.
LEMMA AdvanceCases ==
  ASSUME SdpShape, loop # "returned", NEW l, Advance(l)
  PROVE  /\ sdpLine \in 1 .. Len(sdp)
         /\ \/ sdpLine' = sdpLine + 1 /\ loop' = l /\ sdpLine < Len(sdp)
            \/ sdpLine' = 0 /\ loop' = "returned" /\ sdpLine = Len(sdp)
BY DEF SdpShape, SdpTypeOK, Advance

\* A step that reads the current line keeps the invariant if the line is dealt
\* with: if it is eligible it is the track, and the loop it leads to is the one
\* of its section.
LEMMA LineRead ==
  ASSUME SdpInv, loop # "returned", sdp' = sdp,
         NEW l \in {"before", "outer", "section"}, Advance(l),
         fMultiplexRTCPWithRTP' \in BOOLEAN,
         \/ fControlPath' = fControlPath /\ sdpLine \notin Eligible
         \/ fControlPath' = sdpLine /\ SectionOf(sdpLine) # 0 /\ sdp[SectionOf(sdpLine)] = "video",
         l = "before" => SectionOf(sdpLine) = 0,
         l = "outer" => Passed(SectionOf(sdpLine)),
         l = "section" => SectionOf(sdpLine) # 0 /\ sdp[SectionOf(sdpLine)] = "video"
  PROVE  SdpInv'
<1>1. /\ sdpLine \in 1 .. Len(sdp) /\ sdp \in Seq(Kinds) /\ Len(sdp) \in Nat
      /\ fControlPath \in 0 .. Len(sdp)
      /\ \/ sdpLine' = sdpLine + 1 /\ loop' = l /\ sdpLine < Len(sdp)
         \/ sdpLine' = 0 /\ loop' = "returned" /\ sdpLine = Len(sdp)
  BY AdvanceCases, LenProperties DEF SdpInv, SdpShape, SdpTypeOK
<1>2. SdpShape'
  BY <1>1 DEF SdpShape, SdpTypeOK
<1>3. LoopInv'
  <2>1. CASE sdpLine' = sdpLine + 1 /\ loop' = l
    <3>1. Current' = SectionOf(sdpLine)
      <4>1. sdpLine' - 1 = sdpLine
        BY <1>1, <2>1
      <4> QED BY <4>1 DEF Current, SectionOf, IsMedia
    <3>2. \A s : Passed(s)' <=> Passed(s)
      BY DEF Passed, SectionOf, IsMedia
    <3> QED BY <2>1, <3>1, <3>2 DEF LoopInv, Passed, SectionOf, IsMedia
  <2>2. CASE loop' = "returned"
    BY <2>2 DEF LoopInv
  <2> QED BY <1>1, <2>1, <2>2
<1>4. \A i \in Eligible : i <= sdpLine => fControlPath' >= i
  <2> SUFFICES ASSUME NEW i \in Eligible, i <= sdpLine PROVE fControlPath' >= i
    OBVIOUS
  <2>1. i \in 1 .. Len(sdp)
    BY EligibleIn
  <2>2. CASE i = sdpLine
    BY <1>1, <2>2
  <2>3. CASE i < sdpLine
    <3>1. fControlPath >= i
      BY <2>3 DEF SdpInv, FoundSoFar
    <3> QED BY <1>1, <2>1, <2>3, <3>1
  <2> QED BY <1>1, <2>1, <2>2, <2>3
<1>5. FoundSoFar' /\ LastControlFound'
  <2>1. Eligible' = Eligible /\ \A i \in Eligible : i \in 1 .. Len(sdp)
    BY SameDescription, EligibleIn
  <2> QED BY <1>1, <1>4, <2>1 DEF FoundSoFar, LastControlFound
<1>6. ControlFromVideo'
  BY SameDescription DEF SdpInv, ControlFromVideo
<1> QED BY <1>2, <1>3, <1>5, <1>6 DEF SdpInv

LEMMA SdpStep == SdpInv /\ SdpNext => SdpInv'
<1> SUFFICES ASSUME SdpInv, SdpNext PROVE SdpInv'
  OBVIOUS
<1> DEFINE here == SectionOf(sdpLine)
<1>0. loop # "returned" => sdpLine \in 1 .. Len(sdp) /\ sdpLine \in Nat \ {0}
                           /\ here = IF IsMedia(sdpLine) THEN sdpLine ELSE Current
  BY SectionStep, LenProperties DEF SdpInv, SdpShape, SdpTypeOK, Current
<1>1. CASE Invalid
  <2>1. sdp' = sdp /\ sdpLine' = sdpLine /\ media0' = media0 /\ loop # "returned" /\ loop' = "returned"
        /\ sdp[sdpLine] = "invalid"
    BY <1>1 DEF Invalid
  <2>2. \A i \in Eligible : i < sdpLine
    <3> SUFFICES ASSUME NEW i \in Eligible, ~(i < sdpLine) PROVE FALSE
      OBVIOUS
    <3>1. i \in 1 .. Len(sdp) /\ \A j \in 1 .. i : sdp[j] # "invalid"
      BY EligibleIn
    <3>2. sdpLine \in 1 .. i
      BY <1>0, <2>1, <3>1
    <3> QED BY <2>1, <3>1, <3>2
  <2>3. LastControlFound'
    BY <2>1, <2>2, SameDescription DEF SdpInv, FoundSoFar, LastControlFound, media0
  <2>4. ControlFromVideo'
    BY <2>1, SameDescription DEF SdpInv, ControlFromVideo, media0
  <2>5. SdpShape' /\ LoopInv' /\ FoundSoFar'
    BY <2>1 DEF SdpInv, SdpShape, SdpTypeOK, LoopInv, FoundSoFar, media0
  <2> QED BY <2>3, <2>4, <2>5 DEF SdpInv
<1>2. CASE Before
  <2>1. loop = "before" /\ sdp' = sdp /\ media0' = media0 /\ Current = 0
    BY <1>2 DEF Before, In, SdpInv, LoopInv
  <2>2. CASE IsMedia(sdpLine) /\ loop' = "outer" /\ UNCHANGED sdpLine
    <3>1. Current' = Current
      BY <2>1, <2>2 DEF Current, SectionOf, IsMedia
    <3>2. LoopInv'
      BY <2>1, <2>2, <3>1 DEF LoopInv, Passed
    <3>3. SdpShape' /\ FoundSoFar' /\ LastControlFound'
      BY <2>1, <2>2, SameDescription DEF SdpInv, SdpShape, SdpTypeOK, FoundSoFar, LastControlFound, media0
    <3>4. ControlFromVideo'
      BY <2>1, SameDescription DEF SdpInv, ControlFromVideo, media0
    <3> QED BY <3>2, <3>3, <3>4 DEF SdpInv
  <2>3. CASE ~IsMedia(sdpLine) /\ Advance("before")
    <3>1. here = 0
      BY <1>0, <2>1, <2>3
    <3>2. sdpLine \notin Eligible
      BY <3>1, EligibleIn
    <3> QED BY <2>1, <2>3, <3>1, <3>2, LineRead DEF SdpInv, SdpShape, SdpTypeOK, media0
  <2> QED BY <1>2, <2>2, <2>3 DEF Before
<1>3. CASE Outer
  <2>1. /\ loop = "outer" /\ sdp' = sdp /\ media0' = media0 /\ Passed(Current)
        /\ Advance(IF sdp[sdpLine] = "video" THEN "section" ELSE "outer")
    BY <1>3 DEF Outer, In, SdpInv, LoopInv
  <2>2. sdpLine \notin Eligible
    <3> SUFFICES ASSUME sdpLine \in Eligible PROVE FALSE
      OBVIOUS
    <3>1. sdp[sdpLine] = "control" /\ ~Passed(here)
      BY EligibleIn
    <3> QED BY <1>0, <2>1, <3>1 DEF IsMedia
  <2>3. CASE sdp[sdpLine] = "video"
    <3>1. here = sdpLine /\ here # 0 /\ Advance("section")
      BY <1>0, <2>1, <2>3 DEF IsMedia
    <3> QED BY <2>1, <2>2, <2>3, <3>1, LineRead DEF SdpInv, SdpShape, SdpTypeOK, media0
  <2>4. CASE sdp[sdpLine] # "video"
    <3>1. Passed(here)
      BY <1>0, <2>1, <2>4 DEF IsMedia, Passed
    <3> QED BY <2>1, <2>2, <2>4, <3>1, LineRead DEF SdpInv, SdpShape, SdpTypeOK, media0
  <2> QED BY <2>3, <2>4
<1>4. CASE SectionLine
  <2>1. /\ loop = "section" /\ sdp' = sdp /\ ~IsMedia(sdpLine) /\ Advance("section")
        /\ fMultiplexRTCPWithRTP' \in BOOLEAN
        /\ fControlPath' = IF sdp[sdpLine] = "control" THEN sdpLine ELSE fControlPath
        /\ Current # 0 /\ sdp[Current] = "video"
    BY <1>4 DEF SectionLine, In, SdpInv, LoopInv
  <2>2. here # 0 /\ sdp[here] = "video"
    BY <1>0, <2>1
  <2>3. sdp[sdpLine] # "control" => sdpLine \notin Eligible
    BY EligibleIn
  <2> QED BY <2>1, <2>2, <2>3, LineRead
<1>5. CASE SectionEnds
  <2>1. /\ loop = "section" /\ sdp' = sdp /\ media0' = media0 /\ IsMedia(sdpLine)
        /\ Advance("outer") /\ Current # 0 /\ sdp[Current] = "video"
    BY <1>5 DEF SectionEnds, In, SdpInv, LoopInv
  <2>2. sdpLine \notin Eligible
    BY <2>1, EligibleIn DEF IsMedia
  <2>3. Passed(here)
    BY <1>0, <2>1 DEF Passed, Current
  <2> QED BY <2>1, <2>2, <2>3, LineRead DEF SdpInv, SdpShape, SdpTypeOK, media0
<1> QED BY <1>1, <1>2, <1>3, <1>4, <1>5 DEF SdpNext

\* parseSDP called with a description, or not called for want of one.
LEMMA SdpBegins ==
  ASSUME NEW d \in Seq(Kinds), sdp' = d, fControlPath' = 0, fMultiplexRTCPWithRTP' = FALSE,
         \/ Len(d) >= 1 /\ sdpLine' = 1 /\ loop' = "before"
         \/ d = <<>> /\ sdpLine' = 0 /\ loop' = "returned"
  PROVE  SdpInv'
<1>0. fMultiplexRTCPWithRTP' \in BOOLEAN
  OBVIOUS
<1>1. SdpShape' /\ ControlFromVideo'
  <2>1. fControlPath' \in 0 .. Len(d) /\ sdpLine' \in 0 .. Len(d)
    BY LenProperties
  <2> QED BY <1>0, <2>1 DEF SdpShape, SdpTypeOK, ControlFromVideo
<1>2. \A i \in Eligible' : i \in 1 .. Len(d)
  BY DEF Eligible, Valid
<1>3. FoundSoFar' /\ LastControlFound'
  BY <1>2, LenProperties DEF FoundSoFar, LastControlFound
<1>4. (SectionOf(0))' = 0
  <2>1. {j \in 1 .. 0 : IsMedia(j)'} \cup {0} = {0}
    OBVIOUS
  <2>2. Max({0}) = 0
    BY DEF Max
  <2> QED BY <2>1, <2>2 DEF SectionOf
<1>5. LoopInv'
  BY <1>4 DEF LoopInv, Current
<1> QED BY <1>1, <1>3, <1>5 DEF SdpInv

LEMMA SdpEarlier == Earlier => SdpInv
<1> SUFFICES ASSUME Earlier PROVE SdpInv
  OBVIOUS
<1>1. CASE SdpInit
  <2>0. fMultiplexRTCPWithRTP \in BOOLEAN
    BY <1>1 DEF SdpInit
  <2>1. SdpShape /\ ControlFromVideo /\ LoopInv /\ FoundSoFar
    BY <1>1, <2>0 DEF SdpInit, SdpShape, SdpTypeOK, ControlFromVideo, LoopInv, FoundSoFar
  <2>2. LastControlFound
    BY <1>1 DEF SdpInit, LastControlFound, Eligible, Valid
  <2> QED BY <2>1, <2>2 DEF SdpInv
<1>2. CASE ~SdpInit
  <2>1. /\ sdp = <<"video", "control">> /\ sdpLine = 0 /\ loop = "returned"
        /\ fControlPath = 2 /\ fMultiplexRTCPWithRTP = FALSE
    BY <1>2 DEF Earlier
  <2>2. Len(sdp) = 2 /\ sdp[1] = "video" /\ sdp[2] = "control"
    BY <2>1
  <2>3. sdp \in Seq(Kinds)
    BY <2>1 DEF Kinds
  <2>4. SdpShape /\ LoopInv /\ FoundSoFar
    <3>1. fMultiplexRTCPWithRTP \in BOOLEAN
      BY <2>1
    <3> QED BY <2>1, <2>2, <2>3, <3>1 DEF SdpShape, SdpTypeOK, LoopInv, FoundSoFar
  <2>5. SectionOf(2) = 1
    <3>1. SectionOf(1) = 1
      BY <2>2, SectionStep DEF IsMedia
    <3>2. SectionOf(2) = SectionOf(2 - 1)
      BY <2>2, SectionStep DEF IsMedia
    <3>3. 2 - 1 = 1
      OBVIOUS
    <3> QED BY <3>1, <3>2, <3>3
  <2>6. ControlFromVideo
    BY <2>1, <2>2, <2>5 DEF ControlFromVideo
  <2>7. LastControlFound
    BY <2>1, <2>2, EligibleIn DEF LastControlFound
  <2> QED BY <2>4, <2>6, <2>7 DEF SdpInv
<1> QED BY <1>1, <1>2

---------------------------------------------------------------------------
(* parseTransportParams                                                    *)

PortValue == FieldPorts \cup {NotFound}
Found == [serverPort : PortValue, clientPort : PortValue, channelIds : BOOLEAN,
          isMulticast : BOOLEAN, destination : BOOLEAN, multicastPort : PortValue]

\* Of the first n fields, v is the number in the last one of kind k.
LastOf(k, v, n) ==
  \/ v = NotFound /\ \A i \in 1 .. n : tline[i].kind # k
  \/ \E i \in 1 .. n : /\ tline[i].kind = k /\ tline[i].port = v
                       /\ \A j \in 1 .. n : j > i => tline[j].kind # k

\* Fields read so far.
Consumed == Len(tline) - Len(fields)

TrShape ==
  /\ tline \in Seq(Field) /\ Len(tline) <= MaxFields
  /\ fields \in Seq(Field) /\ Len(fields) <= Len(tline)
  /\ found \in Found

\* The locals hold what the fields read so far say.
TrInv ==
  /\ TrShape
  /\ \A i \in 1 .. Len(fields) : fields[i] = tline[Consumed + i]
  /\ LastOf("server_port", found.serverPort, Consumed)
  /\ LastOf("client_port", found.clientPort, Consumed)
  /\ LastOf("port", found.multicastPort, Consumed)
  /\ found.isMulticast => \A i \in 1 .. Consumed : tline[i].kind # "unicast"

LEMMA LinesAre == \A s : s \in Lines <=> s \in Seq(Field) /\ Len(s) <= MaxFields
<1>1. MaxFields \in Nat
  BY TransportAssumption
<1>2. ASSUME NEW s \in Lines PROVE s \in Seq(Field) /\ Len(s) <= MaxFields
  <2>1. PICK n \in 0 .. MaxFields : s \in [1 .. n -> Field]
    BY DEF Lines
  <2> QED BY <1>1, <2>1
<1>3. ASSUME NEW s \in Seq(Field), Len(s) <= MaxFields PROVE s \in Lines
  <2>1. s \in [1 .. Len(s) -> Field] /\ Len(s) \in 0 .. MaxFields
    BY <1>1, <1>3, LenProperties
  <2> QED BY <2>1 DEF Lines
<1> QED BY <1>2, <1>3

LEMMA FieldKinds ==
  ASSUME NEW f \in Field
  PROVE  /\ f.kind \in {"interleaved", "unicast", "destination", "other", "server_port", "client_port", "port"}
         /\ f.kind \in {"server_port", "client_port", "port"} => f.port \in FieldPorts
BY DEF Field, Plain

\* What TakeField does, component by component.
LEMMA FieldTaken ==
  ASSUME found \in Found, NEW f \in Field
  PROVE  /\ TakeField(f) \in Found
         /\ TakeField(f).serverPort = IF f.kind = "server_port" THEN f.port ELSE found.serverPort
         /\ TakeField(f).clientPort = IF f.kind = "client_port" THEN f.port ELSE found.clientPort
         /\ TakeField(f).multicastPort = IF f.kind = "port" THEN f.port ELSE found.multicastPort
         /\ TakeField(f).isMulticast = (found.isMulticast /\ f.kind # "unicast")
<1> USE DEF Found, PortValue
<1> DEFINE t == TakeField(f)
<1>1. CASE f.kind = "server_port"
  <2>1. t = [found EXCEPT !.serverPort = f.port]
    BY <1>1, Zenon DEF TakeField
  <2> QED BY <1>1, <2>1, FieldKinds
<1>2. CASE f.kind = "client_port"
  <2>1. t = [found EXCEPT !.clientPort = f.port]
    BY <1>2, Zenon DEF TakeField
  <2> QED BY <1>2, <2>1, FieldKinds
<1>3. CASE f.kind = "port"
  <2>1. t = [found EXCEPT !.multicastPort = f.port]
    BY <1>3, Zenon DEF TakeField
  <2> QED BY <1>3, <2>1, FieldKinds
<1>4. CASE f.kind = "interleaved"
  <2>1. t = [found EXCEPT !.channelIds = TRUE]
    BY <1>4, Zenon DEF TakeField
  <2> QED BY <1>4, <2>1
<1>5. CASE f.kind = "unicast"
  <2>1. t = [found EXCEPT !.isMulticast = FALSE]
    BY <1>5, Zenon DEF TakeField
  <2> QED BY <1>5, <2>1
<1>6. CASE f.kind = "destination"
  <2>1. t = [found EXCEPT !.destination = TRUE]
    BY <1>6, Zenon DEF TakeField
  <2> QED BY <1>6, <2>1
<1>7. CASE f.kind = "other"
  <2>1. t = found
    BY <1>7, Zenon DEF TakeField
  <2> QED BY <1>7, <2>1
<1> QED BY <1>1, <1>2, <1>3, <1>4, <1>5, <1>6, <1>7, FieldKinds

\* One field more.
LEMMA LastOfStep ==
  ASSUME NEW n \in Nat, NEW k, NEW v, LastOf(k, v, n)
  PROVE  LastOf(k, IF tline[n + 1].kind = k THEN tline[n + 1].port ELSE v, n + 1)
<1>1. CASE tline[n + 1].kind = k
  <2>1. n + 1 \in 1 .. n + 1 /\ \A j \in 1 .. n + 1 : ~(j > n + 1)
    OBVIOUS
  <2> QED BY <1>1, <2>1 DEF LastOf
<1>2. CASE tline[n + 1].kind # k
  <2>1. \A i \in 1 .. n + 1 : i \in 1 .. n \/ i = n + 1
    OBVIOUS
  <2>2. \A i \in 1 .. n : i \in 1 .. n + 1
    OBVIOUS
  <2> QED BY <1>2, <2>1, <2>2 DEF LastOf
<1> QED BY <1>1, <1>2

LEMMA TrStep == TrInv /\ TrField => TrInv'
<1> SUFFICES ASSUME TrInv, TrField PROVE TrInv'
  OBVIOUS
<1> DEFINE n == Consumed
<1>1. /\ fields # <<>> /\ found' = TakeField(Head(fields)) /\ fields' = Tail(fields) /\ tline' = tline
  BY DEF TrField
<1>2. /\ Len(fields) \in Nat /\ Len(fields) >= 1 /\ Len(tline) \in Nat /\ Len(fields) <= Len(tline)
      /\ Head(fields) = fields[1] /\ fields[1] \in Field
      /\ fields' \in Seq(Field) /\ Len(fields') = Len(fields) - 1
      /\ \A i \in 1 .. Len(fields) - 1 : fields'[i] = fields[i + 1]
  BY <1>1, HeadTailProperties, LenProperties, EmptySeq, ElementOfSeq DEF TrInv, TrShape
<1>3. n \in Nat /\ Consumed' = n + 1 /\ fields[1] = tline[n + 1]
  <2>1. n \in Nat /\ Consumed' = n + 1
    BY <1>1, <1>2 DEF Consumed
  <2>2. 1 \in 1 .. Len(fields)
    BY <1>2
  <2> QED BY <2>1, <2>2 DEF TrInv
<1> DEFINE f == tline[n + 1]
<1>4. f \in Field /\ found' = TakeField(f) /\ found \in Found
  BY <1>1, <1>2, <1>3 DEF TrInv, TrShape
<1>5. TrShape'
  BY <1>1, <1>2, <1>4, FieldTaken DEF TrInv, TrShape
<1>6. \A i \in 1 .. Len(fields') : fields'[i] = tline'[Consumed' + i]
  <2> SUFFICES ASSUME NEW i \in 1 .. Len(fields') PROVE fields'[i] = tline[(n + 1) + i]
    BY <1>1, <1>3
  <2>1. i + 1 \in 1 .. Len(fields) /\ fields'[i] = fields[i + 1]
    BY <1>2
  <2>2. n + (i + 1) = (n + 1) + i
    BY <1>3
  <2> QED BY <2>1, <2>2 DEF TrInv
<1>7. \A k, v : LastOf(k, v, n) => LastOf(k, IF f.kind = k THEN f.port ELSE v, n + 1)
  BY <1>3, LastOfStep
<1>8. \A k, v, m : LastOf(k, v, m)' <=> LastOf(k, v, m)
  BY <1>1 DEF LastOf
<1>9. /\ LastOf("server_port", found'.serverPort, n + 1)
      /\ LastOf("client_port", found'.clientPort, n + 1)
      /\ LastOf("port", found'.multicastPort, n + 1)
  BY <1>4, <1>7, FieldTaken DEF TrInv
<1>10. found'.isMulticast => \A i \in 1 .. n + 1 : tline'[i].kind # "unicast"
  <2>1. found'.isMulticast => found.isMulticast /\ f.kind # "unicast"
    BY <1>4, FieldTaken
  <2>2. \A i \in 1 .. n + 1 : i \in 1 .. n \/ i = n + 1
    BY <1>3
  <2> QED BY <1>1, <2>1, <2>2 DEF TrInv
<1>11. TrInv'
  BY <1>1, <1>3, <1>5, <1>6, <1>9, <1>10 DEF TrInv, LastOf
<1> QED BY <1>11

LEMMA TrBegins ==
  ASSUME NEW line \in Lines, tline' = line, fields' = line, found' = AtStart
  PROVE  TrInv'
<1>1. line \in Seq(Field) /\ Len(line) <= MaxFields /\ Len(line) \in Nat /\ Consumed' = 0
  BY LinesAre, LenProperties DEF Consumed
<1>2. AtStart \in Found
  BY DEF AtStart, Found, PortValue
<1>3. \A k : (LastOf(k, NotFound, 0))'
  BY DEF LastOf
<1>4. (\A i \in 1 .. Len(fields) : fields[i] = tline[Consumed + i])'
  BY <1>1
<1>5. /\ found'.serverPort = NotFound /\ found'.clientPort = NotFound
      /\ found'.multicastPort = NotFound
  BY DEF AtStart
<1>6. TrShape'
  BY <1>1, <1>2 DEF TrShape
<1>7. \A i \in 1 .. 0 : FALSE
  OBVIOUS
<1> QED BY <1>1, <1>3, <1>4, <1>5, <1>6, <1>7 DEF TrInv, LastOf

\* What a line read to its end says of the server's port.
LEMMA PortOfLine ==
  ASSUME TrInv, fields = <<>>, NEW p, p = IF TrValid THEN TrPort ELSE 0
  PROVE  /\ p \in FieldPorts \cup {0}
         /\ p \in {0} \cup {tline[i].port : i \in DOMAIN tline}
         /\ Kind("unicast") # {} /\ Kind("server_port") # {} =>
              p = tline[Max(Kind("server_port"))].port
         /\ p = 0 =>
              \/ \E i \in DOMAIN tline : tline[i].kind \in {"server_port", "client_port", "port"} /\ tline[i].port = 0
              \/ Kind("server_port") \cup Kind("client_port") = {}
<1> DEFINE n == Len(tline)
<1>1. n \in Nat /\ DOMAIN tline = 1 .. n /\ Consumed = n
  BY LenProperties DEF TrInv, TrShape, Consumed
<1>2. /\ LastOf("server_port", found.serverPort, n)
      /\ LastOf("client_port", found.clientPort, n)
      /\ LastOf("port", found.multicastPort, n)
      /\ found.isMulticast => Kind("unicast") = {}
  BY <1>1 DEF TrInv, Kind
<1>3. \A k, v : LastOf(k, v, n) /\ v # NotFound =>
        \E i \in DOMAIN tline : tline[i].kind = k /\ tline[i].port = v
  BY <1>1 DEF LastOf
<1>4. \A k, v : LastOf(k, v, n) /\ v = NotFound /\ v \notin FieldPorts /\ k \in {"server_port", "client_port", "port"}
        => Kind(k) = {}
  <2>1. \A i \in DOMAIN tline : tline[i] \in Field
    BY <1>1, ElementOfSeq DEF TrInv, TrShape
  <2>2. \A i \in DOMAIN tline : tline[i].kind \in {"server_port", "client_port", "port"} => tline[i].port \in FieldPorts
    BY <2>1, FieldKinds
  <2> QED BY <1>1, <2>2 DEF LastOf, Kind
<1>5. NotFound \notin FieldPorts /\ NotFound # 0
  <2>1. \A x \in UShort : x # -1
    BY DEF UShort
  <2> QED BY <2>1, TransportAssumption DEF NotFound
<1>6. found.serverPort \in PortValue /\ found.clientPort \in PortValue /\ found.multicastPort \in PortValue
  BY DEF TrInv, TrShape, Found
<1>7. \/ p = found.multicastPort /\ found.multicastPort # NotFound /\ MulticastLine
      \/ p = found.serverPort /\ found.serverPort # NotFound /\ ~MulticastLine
      \/ p = found.clientPort /\ found.clientPort # NotFound /\ ~MulticastLine /\ found.serverPort = NotFound
      \/ p = 0 /\ ~MulticastLine /\ found.serverPort = NotFound /\ found.clientPort = NotFound
  BY DEF TrValid, TrPort, MulticastLine
<1>8. p \in FieldPorts \cup {0}
  BY <1>6, <1>7 DEF PortValue
<1>9. p \in {0} \cup {tline[i].port : i \in DOMAIN tline}
  BY <1>2, <1>3, <1>7
<1>10. ASSUME Kind("unicast") # {}, Kind("server_port") # {}
       PROVE  p = tline[Max(Kind("server_port"))].port
  <2>1. found.serverPort # NotFound /\ ~MulticastLine
    BY <1>2, <1>4, <1>5, <1>10 DEF MulticastLine
  <2>2. p = found.serverPort
    BY <1>7, <2>1
  <2>3. PICK i \in 1 .. n : /\ tline[i].kind = "server_port" /\ tline[i].port = found.serverPort
                            /\ \A j \in 1 .. n : j > i => tline[j].kind # "server_port"
    BY <1>2, <2>1 DEF LastOf
  <2>4. i \in Kind("server_port") /\ \A y \in Kind("server_port") : y \in Int /\ i >= y
    BY <1>1, <2>3 DEF Kind
  <2>5. \A x \in Kind("server_port") : (\A y \in Kind("server_port") : x >= y) => x = i
    BY <2>4
  <2>6. Max(Kind("server_port")) = i
    BY <2>4, <2>5 DEF Max
  <2> QED BY <2>2, <2>3, <2>6
<1>11. ASSUME p = 0
       PROVE  \/ \E i \in DOMAIN tline : tline[i].kind \in {"server_port", "client_port", "port"} /\ tline[i].port = 0
              \/ Kind("server_port") \cup Kind("client_port") = {}
  <2>1. CASE found.serverPort = NotFound /\ found.clientPort = NotFound
    <3>1. Kind("server_port") = {} /\ Kind("client_port") = {}
      BY <1>2, <1>4, <1>5, <2>1
    <3> QED BY <3>1
  <2>2. CASE ~(found.serverPort = NotFound /\ found.clientPort = NotFound)
    <3>1. \E k \in {"server_port", "client_port", "port"} : LastOf(k, 0, n)
      BY <1>2, <1>7, <1>11, <2>2
    <3> QED BY <1>3, <1>5, <3>1
  <2> QED BY <2>1, <2>2
<1> QED BY <1>8, <1>9, <1>10, <1>11

---------------------------------------------------------------------------
(* The answer: parse                                                       *)

Phases == {"build", "status", "headers", "dispatch", "transport", "sdp", "returned", "undefined"}

PhaseType ==
  /\ phase \in Phases /\ respondCode \in {0, 200, 404} /\ ret \in {0, -1}
  /\ pSetup \in [port : FieldPorts \cup {0}, session : 0 .. 2]

\* The replies' data change only in the calls that end parse.
KeptInv ==
  /\ phase \in {"build", "status", "headers", "dispatch"} => pREPLY = before
  /\ phase \notin {"transport", "returned"} => pSetup = before[2] /\ tline = <<>>
  /\ phase = "transport" => pSetup = [port |-> 0, session |-> 0] /\ transportParamsStr

ForeignInv == foreign => phase = "returned" /\ ret = -1 /\ pREPLY = before

\* A Transport line that was taken gave the port.
PortInv == phase = "returned" /\ tline # <<>> => fields = <<>> /\ pSetup.port = IF TrValid THEN TrPort ELSE 0

ParseInv == PhaseType /\ SdpInv /\ TrInv /\ KeptInv /\ ForeignInv /\ NoMixture /\ PortInv

LEMMA ParseInit == Init => ParseInv
<1> SUFFICES ASSUME Init PROVE ParseInv
  OBVIOUS
<1> USE DEF Init
<1>1. PhaseType
  BY DEF PhaseType, Phases
<1>2. SdpInv
  BY SdpEarlier
<1>3. TrInv
  <2>1. TrShape /\ Consumed = 0 /\ fields = <<>> /\ tline = <<>> /\ found = AtStart
    BY TransportAssumption DEF TrInit, TrShape, Consumed, AtStart, Found, PortValue
  <2>2. \A k : LastOf(k, NotFound, 0)
    BY DEF LastOf
  <2>3. \A i \in 1 .. 0 : FALSE
    OBVIOUS
  <2> QED BY <2>1, <2>2, <2>3 DEF TrInv, AtStart
<1>4. before[2] = pSetup
  BY DEF pREPLY
<1>5. KeptInv /\ ForeignInv /\ NoMixture /\ PortInv
  BY <1>4 DEF KeptInv, ForeignInv, NoMixture, PortInv, TrInit
<1> QED BY <1>1, <1>2, <1>3, <1>5 DEF ParseInv

LEMMA SdpKept == SdpInv /\ UNCHANGED sdpVars => SdpInv'
<1> SUFFICES ASSUME SdpInv, UNCHANGED <<sdp, sdpLine, loop, fControlPath, fMultiplexRTCPWithRTP>>
             PROVE  SdpInv'
  BY DEF sdpVars, media0
<1>1. SdpShape'
  BY DEF SdpInv, SdpShape, SdpTypeOK
<1>2. LoopInv'
  <2>1. Current' = Current /\ \A s : Passed(s)' <=> Passed(s)
    BY DEF Current, Passed, SectionOf, IsMedia
  <2>2. Passed(Current)' <=> Passed(Current)
    BY DEF Current, Passed, SectionOf, IsMedia
  <2> QED BY <2>1, <2>2 DEF SdpInv, LoopInv
<1>3. FoundSoFar' /\ LastControlFound'
  BY SameDescription DEF SdpInv, FoundSoFar, LastControlFound
<1>4. ControlFromVideo'
  BY SameDescription DEF SdpInv, ControlFromVideo
<1> QED BY <1>1, <1>2, <1>3, <1>4 DEF SdpInv

LEMMA TrKept == TrInv /\ UNCHANGED trVars => TrInv'
<1> SUFFICES ASSUME TrInv, UNCHANGED <<fields, tline, found>> PROVE TrInv'
  BY DEF trVars
<1>1. Consumed' = Consumed /\ \A k, v, n : LastOf(k, v, n)' <=> LastOf(k, v, n)
  BY DEF Consumed, LastOf
<1>2. /\ (LastOf("server_port", found.serverPort, Consumed))'
      /\ (LastOf("client_port", found.clientPort, Consumed))'
      /\ (LastOf("port", found.multicastPort, Consumed))'
  BY <1>1 DEF TrInv, LastOf
<1>3. TrShape' /\ (\A i \in 1 .. Len(fields) : fields[i] = tline[Consumed + i])'
  BY <1>1 DEF TrInv, TrShape
<1>4. (found.isMulticast => \A i \in 1 .. Consumed : tline[i].kind # "unicast")'
  BY <1>1 DEF TrInv
<1> QED BY <1>2, <1>3, <1>4 DEF TrInv

\* A step that leaves the parsers and pREPLY alone, on the way to the dispatch
\* or out of parse.
LEMMA QuietStep ==
  ASSUME ParseInv, UNCHANGED <<trVars, sdpVars, pSetup, before>>,
         phase' \in Phases, respondCode' \in {0, 200, 404}, ret' \in {0, -1},
         phase \in {"build", "status", "headers", "dispatch"},
         phase' \notin {"transport", "sdp"},
         foreign' => foreign \/ (phase' = "returned" /\ ret' = -1)
  PROVE  ParseInv'
<1>1. PhaseType'
  BY DEF ParseInv, PhaseType
<1>2. SdpInv'
  BY SdpKept DEF ParseInv
<1>3. TrInv'
  BY TrKept DEF ParseInv
<1>4. pREPLY' = pREPLY /\ pREPLY = before /\ before' = before /\ tline = <<>> /\ tline' = <<>>
      /\ pSetup' = pSetup /\ pSetup = before[2] /\ ~foreign
  BY DEF ParseInv, KeptInv, ForeignInv, pREPLY, media0, sdpVars, trVars
<1>5. KeptInv' /\ ForeignInv' /\ NoMixture' /\ PortInv'
  BY <1>4 DEF KeptInv, ForeignInv, NoMixture, PortInv
<1> QED BY <1>1, <1>2, <1>3, <1>5 DEF ParseInv

LEMMA DescriptionsAre == \A d \in Descriptions : d \in Seq(Kinds) /\ Len(d) >= 1
<1> SUFFICES ASSUME NEW d \in Descriptions PROVE d \in Seq(Kinds) /\ Len(d) >= 1
  OBVIOUS
<1>1. PICK n \in 1 .. MaxLines : d \in [1 .. n -> Kinds]
  BY DEF Descriptions
<1> QED BY <1>1, SdpAssumption

LEMMA ParseStep == ParseInv /\ [Next]_vars => ParseInv'
<1> SUFFICES ASSUME ParseInv, [Next]_vars PROVE ParseInv'
  OBVIOUS
<1>0. /\ phase \in Phases /\ respondCode \in {0, 200, 404} /\ ret \in {0, -1}
      /\ pSetup \in [port : FieldPorts \cup {0}, session : 0 .. 2]
  BY DEF ParseInv, PhaseType
<1> USE DEF Phases
<1>1. CASE Build \/ AddLine \/ Written
  <2>1. /\ UNCHANGED <<trVars, sdpVars, pSetup, before, foreign, respondCode, ret>>
        /\ phase = "build" /\ phase' \in {"build", "status"}
    BY <1>1 DEF Build, AddLine, Written, locals, hist
  <2> QED BY <1>0, <2>1, QuietStep
<1>2. CASE NothingRead \/ NoStatusLine \/ (\E code \in {200, 404} : StatusLine(code))
  <2>1. /\ UNCHANGED <<trVars, sdpVars, pSetup, before, foreign>> /\ phase = "status"
        /\ phase' \in {"returned", "dispatch", "headers"} /\ respondCode' \in {respondCode, 200, 404}
        /\ ret' \in {ret, -1}
    BY <1>2 DEF NothingRead, NoStatusLine, StatusLine, hist
  <2> QED BY <1>0, <2>1, QuietStep
<1>3. CASE (\E l \in Header : HeaderLine(l)) \/ HeaderCut
  <2>1. /\ UNCHANGED <<trVars, sdpVars, pSetup, before, respondCode>> /\ phase = "headers"
        /\ phase' \in {"returned", "dispatch", "headers", "undefined"}
        /\ ret' \in {ret, -1}
        /\ foreign' => foreign \/ (phase' = "returned" /\ ret' = -1)
    <3>1. CASE HeaderCut
      BY <3>1 DEF HeaderCut, hist
    <3>2. ASSUME NEW l \in Header, HeaderLine(l)
          PROVE  /\ UNCHANGED <<trVars, sdpVars, pSetup, before, respondCode>> /\ phase = "headers"
                 /\ phase' \in {"returned", "dispatch", "headers", "undefined"}
                 /\ ret' \in {ret, -1}
                 /\ foreign' => foreign \/ (phase' = "returned" /\ ret' = -1)
      <4>1. AfterLine(l) /\ foreign' = (foreign \/ l = "otherCseq")
        BY <3>2 DEF HeaderLine
      <4>2. /\ phase' \in {"returned", "dispatch", "headers", "undefined"} /\ ret' \in {ret, -1}
            /\ l = "otherCseq" => phase' = "returned" /\ ret' = -1
        BY <4>1 DEF AfterLine
      <4>3. UNCHANGED <<trVars, sdpVars, pSetup, before, respondCode>> /\ phase = "headers"
        BY <3>2 DEF HeaderLine
      <4> QED BY <4>1, <4>2, <4>3
    <3> QED BY <1>3, <3>1, <3>2
  <2> QED BY <1>0, <2>1, QuietStep
<1>4. CASE DispatchOther
  <2>1. /\ UNCHANGED <<trVars, sdpVars, pSetup, before, foreign, respondCode>>
        /\ phase = "dispatch" /\ phase' = "returned" /\ ret' \in {0, -1}
    BY <1>4 DEF DispatchOther, Result, hist
  <2> QED BY <1>0, <2>1, QuietStep
<1>5. CASE DispatchDescribe
  <2>1. /\ phase = "dispatch" /\ UNCHANGED <<trVars, pSetup, before, foreign, respondCode>>
        /\ fControlPath' = 0 /\ fMultiplexRTCPWithRTP' = FALSE
        /\ \/ phase' = "sdp" /\ ret' = ret /\ \E d \in Descriptions : SdpStart(d)
           \/ phase' = "returned" /\ ret' \in {0, -1} /\ sdp' = <<>> /\ sdpLine' = 0 /\ loop' = "returned"
    BY <1>5 DEF DispatchDescribe, Result, hist
  <2>2. SdpInv'
    <3>1. CASE \E d \in Descriptions : SdpStart(d)
      <4> PICK d \in Descriptions : SdpStart(d)
        BY <3>1
      <4>1. d \in Seq(Kinds) /\ Len(d) >= 1
        BY DescriptionsAre
      <4> QED BY <2>1, <4>1, SdpBegins DEF SdpStart
    <3>2. CASE sdp' = <<>> /\ sdpLine' = 0 /\ loop' = "returned"
      <4>1. <<>> \in Seq(Kinds)
        OBVIOUS
      <4> QED BY <2>1, <3>2, <4>1, SdpBegins
    <3> QED BY <2>1, <3>1, <3>2
  <2>3. TrInv'
    BY <2>1, TrKept DEF ParseInv
  <2>4. PhaseType'
    BY <1>0, <2>1 DEF PhaseType
  <2>5. ~foreign /\ tline = <<>> /\ tline' = <<>> /\ pSetup' = before'[2]
    BY <2>1 DEF ParseInv, ForeignInv, KeptInv, trVars
  <2>6. KeptInv' /\ ForeignInv' /\ NoMixture' /\ PortInv'
    BY <2>1, <2>5 DEF KeptInv, ForeignInv, NoMixture, PortInv
  <2> QED BY <2>2, <2>3, <2>4, <2>6 DEF ParseInv
<1>6. CASE ParseSdp
  <2>1. /\ phase = "sdp" /\ UNCHANGED <<trVars, pSetup, before, foreign, respondCode>>
        /\ \/ SdpNext /\ UNCHANGED <<phase, ret>>
           \/ phase' = "returned" /\ ret' \in {0, -1} /\ UNCHANGED sdpVars
    BY <1>6 DEF ParseSdp, Result, hist
  <2>2. SdpInv'
    BY <2>1, SdpStep, SdpKept DEF ParseInv
  <2>3. TrInv'
    BY <2>1, TrKept DEF ParseInv
  <2>4. PhaseType'
    BY <1>0, <2>1 DEF PhaseType
  <2>5. ~foreign /\ tline = <<>> /\ tline' = <<>> /\ pSetup' = before'[2]
    BY <2>1 DEF ParseInv, ForeignInv, KeptInv, trVars
  <2>6. KeptInv' /\ ForeignInv' /\ NoMixture' /\ PortInv'
    BY <2>1, <2>5 DEF KeptInv, ForeignInv, NoMixture, PortInv
  <2> QED BY <2>2, <2>3, <2>4, <2>6 DEF ParseInv
<1>7. CASE DispatchSetup
  <2>1. /\ phase = "dispatch" /\ pSetup' = [port |-> 0, session |-> 0]
        /\ UNCHANGED <<sdpVars, before, foreign, respondCode, sessionParamsStr, transportParamsStr>>
        /\ \/ transportParamsStr /\ phase' = "transport" /\ ret' = ret /\ \E line \in Lines : TrStart(line)
           \/ phase' = "returned" /\ ret' \in {0, -1} /\ UNCHANGED trVars
    BY <1>7 DEF DispatchSetup, Result, hist
  <2>2. SdpInv'
    BY <2>1, SdpKept DEF ParseInv
  <2>3. TrInv'
    <3>1. CASE \E line \in Lines : TrStart(line)
      BY <3>1, TrBegins DEF TrStart
    <3>2. CASE UNCHANGED trVars
      BY <3>2, TrKept DEF ParseInv
    <3> QED BY <2>1, <3>1, <3>2
  <2>4. PhaseType'
    BY <1>0, <2>1 DEF PhaseType
  <2>5. ~foreign /\ tline = <<>> /\ pSetup'.session = 0 /\ pSetup'.port = 0
    BY <2>1 DEF ParseInv, ForeignInv, KeptInv
  <2>6. KeptInv' /\ ForeignInv' /\ NoMixture'
    BY <2>1, <2>5 DEF KeptInv, ForeignInv, NoMixture
  <2>7. PortInv'
    BY <2>1, <2>5 DEF PortInv, trVars
  <2> QED BY <2>2, <2>3, <2>4, <2>6, <2>7 DEF ParseInv
<1>8. CASE ParseTransport
  <2>1. /\ phase = "transport" /\ pSetup = [port |-> 0, session |-> 0] /\ transportParamsStr /\ ~foreign
        /\ UNCHANGED <<sdpVars, before, foreign, respondCode, sessionParamsStr, transportParamsStr>>
    BY <1>8 DEF ParseTransport, hist, ParseInv, KeptInv, ForeignInv
  <2>2. SdpInv'
    BY <2>1, SdpKept DEF ParseInv
  <2>3. CASE TrField /\ UNCHANGED <<phase, ret, pSetup>>
    <3>1. TrInv'
      BY <2>3, TrStep DEF ParseInv
    <3>2. PhaseType'
      BY <1>0, <2>1, <2>3 DEF PhaseType
    <3>3. KeptInv' /\ ForeignInv' /\ NoMixture' /\ PortInv'
      BY <2>1, <2>3 DEF KeptInv, ForeignInv, NoMixture, PortInv
    <3> QED BY <2>2, <3>1, <3>2, <3>3 DEF ParseInv
  <2>4. CASE /\ fields = <<>> /\ Result /\ UNCHANGED trVars
             /\ pSetup' = IF TrValid
                          THEN [port |-> TrPort, session |-> IF sessionParamsStr THEN 2 ELSE pSetup.session]
                          ELSE pSetup
    <3> DEFINE p == IF TrValid THEN TrPort ELSE 0
    <3>1. /\ pSetup'.port = p /\ pSetup' = [port |-> pSetup'.port, session |-> pSetup'.session]
          /\ pSetup'.session \in {0, 2} /\ (pSetup'.session = 2 => sessionParamsStr)
      BY <2>1, <2>4
    <3>2. p \in FieldPorts \cup {0} /\ p \in {0} \cup {tline[i].port : i \in DOMAIN tline}
      BY <2>4, PortOfLine DEF ParseInv
    <3>3. (TrValid' <=> TrValid) /\ TrPort' = TrPort /\ tline' = tline /\ fields' = <<>>
          /\ phase' = "returned" /\ ret' \in {0, -1}
      BY <2>4 DEF TrValid, TrPort, MulticastLine, trVars, Result
    <3> HIDE DEF p
    <3>4. TrInv'
      BY <2>4, TrKept DEF ParseInv
    <3>5. PhaseType'
      BY <1>0, <2>1, <3>1, <3>2, <3>3 DEF PhaseType
    <3>6. NoMixture'
      BY <2>1, <3>1, <3>2, <3>3 DEF NoMixture
    <3>7. PortInv'
      BY <3>1, <3>3 DEF PortInv, p
    <3>8. KeptInv' /\ ForeignInv'
      BY <2>1, <3>3 DEF KeptInv, ForeignInv
    <3> QED BY <2>2, <3>4, <3>5, <3>6, <3>7, <3>8 DEF ParseInv
  <2> QED BY <1>8, <2>3, <2>4 DEF ParseTransport
<1>9. CASE UNCHANGED vars
  <2>1. UNCHANGED <<phase, respondCode, sessionParamsStr, transportParamsStr, ret, pSetup, before, foreign>>
        /\ UNCHANGED trVars /\ UNCHANGED sdpVars
    BY <1>9 DEF vars, locals, hist
  <2>2. SdpInv' /\ TrInv'
    BY <2>1, SdpKept, TrKept DEF ParseInv
  <2>3. PhaseType'
    BY <1>0, <2>1 DEF PhaseType
  <2>4. UNCHANGED <<tline, fields, TrValid, TrPort, pREPLY>>
    BY <2>1 DEF TrValid, TrPort, MulticastLine, trVars, pREPLY, media0, sdpVars
  <2>5. KeptInv' /\ ForeignInv' /\ NoMixture' /\ PortInv'
    BY <2>1, <2>4 DEF ParseInv, KeptInv, ForeignInv, NoMixture, PortInv
  <2> QED BY <2>2, <2>3, <2>5 DEF ParseInv
<1> QED BY <1>1, <1>2, <1>3, <1>4, <1>5, <1>6, <1>7, <1>8, <1>9 DEF Next

LEMMA ParseInvariant == Spec => []ParseInv
BY ParseInit, ParseStep, PTL DEF Spec

\* A reply with the number of another request is not accepted and changes nothing
\* of what cRTSPprotocol::parse has stored, whatever lines come before and after.
THEOREM ForeignRepliesIgnored == Spec => []ForeignIgnored
<1>1. ParseInv => ForeignIgnored
  BY DEF ParseInv, ForeignInv, ForeignIgnored
<1> QED BY <1>1, ParseInvariant, PTL

\* The port udp_connect is given and the session PLAY names come from one and the
\* same reply, for any Transport line.
THEOREM NothingMixed == Spec => []NoMixture
<1>1. ParseInv => NoMixture
  BY DEF ParseInv
<1> QED BY <1>1, ParseInvariant, PTL

\* parseTransportParams takes the port the line names, in whatever order its
\* fields come and however many there are.
THEOREM PortTaken == Spec => []PortAsNamed
<1>1. ParseInv => PortAsNamed
  <2> SUFFICES ASSUME ParseInv, Taken PROVE PortAsNamed
    BY DEF PortAsNamed, UnicastPort, PortZero
  <2>1. TrInv /\ fields = <<>> /\ pSetup.port = IF TrValid THEN TrPort ELSE 0
    BY DEF Taken, ParseInv, PortInv
  <2> QED BY <2>1, PortOfLine DEF PortAsNamed, UnicastPort, PortZero
<1> QED BY <1>1, ParseInvariant, PTL

\* The track SETUP asks for is one of a video stream, and the last one parseSDP
\* can see, for every description of any length.
THEOREM TrackIsVideo == Spec => []TrackOfVideo
<1>1. ParseInv => TrackOfVideo
  BY DEF ParseInv, SdpInv, TrackOfVideo
<1> QED BY <1>1, ParseInvariant, PTL

---------------------------------------------------------------------------
(* The request: begain_cmd, add_line_cmd, end_cmd                          *)

\* The two buffers as large as the code has them (256 and 256), or any sizes in
\* which PLAY with the longest URL and session fits.
Room == 254 <= mSendLen /\ mSendLen <= LineLen

\* Length of at most four lines and the blank line.
Rest(ls) ==
  IF Len(ls) = 0 THEN 2
  ELSE IF Len(ls) = 1 THEN ls[1] + 4
  ELSE IF Len(ls) = 2 THEN ls[1] + ls[2] + 6
  ELSE IF Len(ls) = 3 THEN ls[1] + ls[2] + ls[3] + 8
  ELSE ls[1] + ls[2] + ls[3] + ls[4] + 10

LEMMA UpToFour == \A n \in Nat : n <= 4 => n = 0 \/ n = 1 \/ n = 2 \/ n = 3 \/ n = 4
OBVIOUS

LEMMA FewLines ==
  ASSUME NEW ls \in Seq(Nat), Len(ls) <= 4
  PROVE  /\ Len(ls) = 0 \/ Len(ls) = 1 \/ Len(ls) = 2 \/ Len(ls) = 3 \/ Len(ls) = 4
         /\ Len(ls) \in Nat
         /\ \A i \in 1 .. Len(ls) : ls[i] \in Nat
<1>1. Len(ls) \in Nat
  BY LenProperties
<1>2. \A i \in 1 .. Len(ls) : ls[i] \in Nat
  BY ElementOfSeq
<1> QED BY <1>1, <1>2, UpToFour

LEMMA TotalIs ==
  ASSUME NEW ls \in Seq(Nat), Len(ls) <= 4
  PROVE  Total(ls) = Rest(ls)
<1> DEFINE n == Len(ls)
           Sums(s) == s = [i \in 0 .. n |-> IF i = 0 THEN 2 ELSE s[i - 1] + ls[i] + 2]
           sum == CHOOSE s : Sums(s)
           g == [i \in 0 .. n |->
                   IF i = 0 THEN 2 ELSE IF i = 1 THEN ls[1] + 4
                   ELSE IF i = 2 THEN ls[1] + ls[2] + 6
                   ELSE IF i = 3 THEN ls[1] + ls[2] + ls[3] + 8
                   ELSE ls[1] + ls[2] + ls[3] + ls[4] + 10]
           h == [i \in 0 .. n |-> IF i = 0 THEN 2 ELSE g[i - 1] + ls[i] + 2]
<1>1. /\ n \in Nat /\ n <= 4 /\ (n = 0 \/ n = 1 \/ n = 2 \/ n = 3 \/ n = 4)
      /\ \A i \in 1 .. n : ls[i] \in Nat
  BY FewLines
<1>2. \A i \in 0 .. n : g[i] = h[i]
  <2> SUFFICES ASSUME NEW i \in 0 .. n PROVE g[i] = h[i]
    OBVIOUS
  <2>1. i = 0 \/ i = 1 \/ i = 2 \/ i = 3 \/ i = 4
    BY <1>1, UpToFour
  <2>2. i # 0 => i - 1 \in 0 .. n /\ i \in 1 .. n
    BY <1>1
  <2> QED BY <1>1, <2>1, <2>2, SMTT(30)
<1>3. Sums(g)
  <2>1. g = h
    BY <1>2
  <2> QED BY <2>1
<1>4. Sums(sum)
  <2> HIDE DEF Sums, g
  <2> QED BY <1>3
<1>5. Total(ls) = sum[n]
  BY DEF Total
<1>6. sum[n] = Rest(ls)
  <2>1. \A i \in 0 .. n : sum[i] = IF i = 0 THEN 2 ELSE sum[i - 1] + ls[i] + 2
    <3> HIDE DEF sum
    <3> QED BY <1>4
  <2> HIDE DEF sum, g, h, Sums, n
  <2>2. sum[0] = 2
    BY <1>1, <2>1
  <2>3. n >= 1 => sum[1] = ls[1] + 4
    <3>1. n >= 1 => 1 \in 0 .. n /\ 1 \in 1 .. n /\ 1 - 1 = 0
      BY <1>1
    <3>2. n >= 1 => sum[1] = sum[0] + ls[1] + 2 /\ ls[1] \in Nat
      BY <1>1, <2>1, <3>1
    <3> QED BY <1>1, <3>2, <2>2
  <2>4. n >= 2 => sum[2] = ls[1] + ls[2] + 6
    <3>1. n >= 2 => 2 \in 0 .. n /\ 2 \in 1 .. n /\ 2 - 1 = 1
      BY <1>1
    <3>2. n >= 2 => sum[2] = sum[1] + ls[2] + 2 /\ ls[1] \in Nat /\ ls[2] \in Nat
      BY <1>1, <2>1, <3>1
    <3> QED BY <1>1, <3>2, <2>3, SMTT(30)
  <2>5. n >= 3 => sum[3] = ls[1] + ls[2] + ls[3] + 8
    <3>1. n >= 3 => 3 \in 0 .. n /\ 3 \in 1 .. n /\ 3 - 1 = 2
      BY <1>1
    <3>2. n >= 3 => sum[3] = sum[2] + ls[3] + 2 /\ ls[1] \in Nat /\ ls[2] \in Nat /\ ls[3] \in Nat
      BY <1>1, <2>1, <3>1
    <3> QED BY <1>1, <3>2, <2>4, SMTT(30)
  <2>6. n >= 4 => sum[4] = ls[1] + ls[2] + ls[3] + ls[4] + 10
    <3>1. n >= 4 => 4 \in 0 .. n /\ 4 \in 1 .. n /\ 4 - 1 = 3
      BY <1>1
    <3>2. n >= 4 => sum[4] = sum[3] + ls[4] + 2 /\ ls[1] \in Nat /\ ls[2] \in Nat /\ ls[3] \in Nat /\ ls[4] \in Nat
      BY <1>1, <2>1, <3>1
    <3> QED BY <1>1, <3>2, <2>5, SMTT(30)
  <2>7. CASE n = 0
    BY <2>2, <2>7 DEF Rest, n
  <2>8. CASE n = 1
    BY <2>3, <2>8 DEF Rest, n
  <2>9. CASE n = 2
    BY <2>4, <2>9 DEF Rest, n
  <2>10. CASE n = 3
    BY <2>5, <2>10 DEF Rest, n
  <2>11. CASE n = 4
    BY <2>6, <2>11 DEF Rest, n
  <2> QED BY <1>1, <2>7, <2>8, <2>9, <2>10, <2>11
<1> QED BY <1>5, <1>6

LEMMA RestTail ==
  ASSUME NEW ls \in Seq(Nat), ls # <<>>, Len(ls) <= 4
  PROVE  /\ Tail(ls) \in Seq(Nat) /\ Len(Tail(ls)) <= 4 /\ Head(ls) \in Nat
         /\ Rest(ls) = Head(ls) + 2 + Rest(Tail(ls)) /\ Rest(Tail(ls)) >= 2
<1> DEFINE t == Tail(ls)
<1>1. /\ t \in Seq(Nat) /\ Len(ls) >= 1 /\ Len(ls) \in Nat /\ Len(t) = Len(ls) - 1 /\ Head(ls) = ls[1]
      /\ \A i \in 1 .. Len(ls) - 1 : t[i] = ls[i + 1]
  BY HeadTailProperties, LenProperties, EmptySeq
<1>2. \A i \in 1 .. Len(ls) : ls[i] \in Nat
  BY FewLines
<1> HIDE DEF t
<1> DEFINE n == Len(ls)
           m == Len(t)
<1>3. (n = 1 \/ n = 2 \/ n = 3 \/ n = 4) /\ m = n - 1 /\ n \in Nat
  <2>1. n # 0
    BY <1>1
  <2> QED BY <1>1, <2>1, FewLines
<1>4. Rest(ls) = Head(ls) + 2 + Rest(t) /\ Rest(t) >= 2
  <2>1. CASE n = 1
    BY <1>1, <1>2, <2>1 DEF Rest
  <2>2. CASE n = 2
    <3>1. m = 1 /\ t[1] = ls[2] /\ ls[1] \in Nat /\ ls[2] \in Nat
      BY <1>1, <1>2, <1>3, <2>2
    <3> QED BY <1>1, <2>2, <3>1 DEF Rest
  <2>3. CASE n = 3
    <3>1. m = 2 /\ t[1] = ls[2] /\ t[2] = ls[3] /\ ls[1] \in Nat /\ ls[2] \in Nat /\ ls[3] \in Nat
      BY <1>1, <1>2, <1>3, <2>3
    <3> QED BY <1>1, <2>3, <3>1 DEF Rest
  <2>4. CASE n = 4
    <3>1. /\ m = 3 /\ t[1] = ls[2] /\ t[2] = ls[3] /\ t[3] = ls[4]
          /\ ls[1] \in Nat /\ ls[2] \in Nat /\ ls[3] \in Nat /\ ls[4] \in Nat
      BY <1>1, <1>2, <1>3, <2>4
    <3> QED BY <1>1, <2>4, <3>1, SMTT(30) DEF Rest
  <2> QED BY <1>3, <2>1, <2>2, <2>3, <2>4
<1>5. Head(ls) \in Nat /\ Len(t) <= 4
  BY <1>1, <1>2
<1> QED BY <1>1, <1>4, <1>5 DEF t

\* Until it is written, a request is what was added and what is still to add.
RequestInv ==
  /\ request \in Methods \cup {"none"} /\ whole \in Nat /\ trackLen \in Nat
  /\ todo \in Seq(Nat) /\ Len(todo) <= 4 /\ mSendOffset \in Nat
  /\ request = "none" => todo = <<>>
  /\ phase = "build" => mSendOffset <= mSendLen
  /\ phase # "build" => todo = <<>> /\ mSendOffset <= mSendLen + 2
  /\ phase = "build" /\ request # "none" /\ trackLen <= LongestTrack =>
       mSendOffset + Rest(todo) = whole /\ whole <= mSendLen
  /\ RequestWhole

\* begain_cmd with lines that fit.
LEMMA Begun ==
  ASSUME Room, NEW m \in Methods, NEW ls \in Seq(Nat), Len(ls) <= 4, begain_cmd(m, ls),
         trackLen' \in Nat, phase' = "build",
         trackLen' <= LongestTrack => Rest(ls) <= mSendLen
  PROVE  RequestInv'
<1> DEFINE c == [i \in DOMAIN ls |-> Clip(ls[i])]
<1>1. request' = m /\ whole' = Rest(ls) /\ todo' = c /\ mSendOffset' = 0
  BY TotalIs DEF begain_cmd
<1>2. LineLen \in Nat \ {0} /\ mSendLen \in Nat
  BY BuilderAssumption
<1>3. Len(ls) \in Nat /\ DOMAIN ls = 1 .. Len(ls) /\ \A i \in 1 .. Len(ls) : ls[i] \in Nat
  BY FewLines
<1>4. c \in Seq(Nat) /\ Len(c) = Len(ls) /\ \A i \in 1 .. Len(ls) : c[i] = Clip(ls[i])
  <2>1. \A i \in 1 .. Len(ls) : Clip(ls[i]) \in Nat
    BY <1>2, <1>3 DEF Clip
  <2>2. c \in [1 .. Len(ls) -> Nat]
    BY <1>3, <2>1
  <2> QED BY <1>3, <2>2
<1>5. Rest(ls) \in Nat
  <2>1. CASE Len(ls) = 0
    BY <2>1 DEF Rest
  <2>2. CASE Len(ls) = 1
    BY <1>3, <2>2 DEF Rest
  <2>3. CASE Len(ls) = 2
    BY <1>3, <2>3 DEF Rest
  <2>4. CASE Len(ls) = 3
    BY <1>3, <2>4 DEF Rest
  <2>5. CASE Len(ls) = 4
    BY <1>3, <2>5 DEF Rest
  <2> QED BY <2>1, <2>2, <2>3, <2>4, <2>5, FewLines
<1>6. trackLen' <= LongestTrack => c = ls
  <2> SUFFICES ASSUME trackLen' <= LongestTrack PROVE c = ls
    OBVIOUS
  <2>1. \A i \in 1 .. Len(ls) : ls[i] < LineLen
    <3> SUFFICES ASSUME NEW i \in 1 .. Len(ls) PROVE ls[i] < LineLen
      OBVIOUS
    <3>1. ls[i] + 4 <= Rest(ls)
      <4>1. CASE Len(ls) = 1
        BY <1>3, <4>1 DEF Rest
      <4>2. CASE Len(ls) = 2
        BY <1>3, <4>2 DEF Rest
      <4>3. CASE Len(ls) = 3
        BY <1>3, <4>3 DEF Rest
      <4>4. CASE Len(ls) = 4
        BY <1>3, <4>4 DEF Rest
      <4>5. Len(ls) # 0
        BY <1>3
      <4> QED BY <4>1, <4>2, <4>3, <4>4, <4>5, FewLines
    <3> QED BY <1>2, <1>3, <1>5, <3>1 DEF Room
  <2>2. \A i \in 1 .. Len(ls) : c[i] = ls[i]
    BY <1>4, <2>1 DEF Clip
  <2> QED BY <1>3, <1>4, <2>2
<1> HIDE DEF c
<1>7. RequestWhole'
  BY DEF RequestWhole
<1>8. (trackLen <= LongestTrack => mSendOffset + Rest(todo) = whole /\ whole <= mSendLen)'
  <2>1. LongestTrack' = LongestTrack
    BY DEF LongestTrack
  <2>2. trackLen' <= LongestTrack => mSendOffset' + Rest(todo') = whole' /\ whole' <= mSendLen
    BY <1>1, <1>5, <1>6
  <2> QED BY <2>1, <2>2 DEF Rest
<1>9. (request = "none" => todo = <<>>)'
  <2>1. m # "none"
    BY DEF Methods, MethodLen
  <2> QED BY <1>1, <2>1
<1>10. Len(todo') <= 4
  BY <1>1, <1>4
<1> QED BY <1>1, <1>2, <1>4, <1>5, <1>7, <1>8, <1>9, <1>10 DEF RequestInv

LEMMA MethodFacts ==
  /\ Methods = {"OPTIONS", "DESCRIBE", "SETUP", "PLAY", "PAUSE", "TEARDOWN"}
  /\ MethodLen["SETUP"] = 5 /\ MethodLen["PLAY"] = 4
  /\ \A m \in Methods : MethodLen[m] \in Nat /\ MethodLen[m] <= 8
BY DEF Methods, MethodLen

LEMMA Lengths ==
  /\ \A u \in UrlLens : u \in Nat /\ u <= 127
  /\ \A c \in CSeqLens : c \in Nat /\ c <= 10
  /\ \A p \in PortLens : p \in Nat /\ p <= 13
  /\ \A s \in SessionLens \cup {0} : s \in Nat /\ s <= 63
  /\ \A t \in TrackLens \cup {NullLen} : t \in Nat
BY BuilderAssumption DEF NullLen

LEMMA RestInt ==
  ASSUME NEW ls \in Seq(Nat), Len(ls) <= 4
  PROVE  Rest(ls) \in Int
<1>0. \A i \in 1 .. Len(ls) : ls[i] \in Nat
  BY FewLines
<1>1. CASE Len(ls) = 0
  BY <1>1 DEF Rest
<1>2. CASE Len(ls) = 1
  BY <1>2, FewLines DEF Rest
<1>3. CASE Len(ls) = 2
  <2>1. ls[1] \in Nat /\ ls[2] \in Nat
    BY <1>3, <1>0
  <2> QED BY <1>3, <2>1 DEF Rest
<1>4. CASE Len(ls) = 3
  <2>1. ls[1] \in Nat /\ ls[2] \in Nat /\ ls[3] \in Nat
    BY <1>4, <1>0
  <2> QED BY <1>4, <2>1 DEF Rest
<1>5. CASE Len(ls) = 4
  <2>1. ls[1] \in Nat /\ ls[2] \in Nat /\ ls[3] \in Nat /\ ls[4] \in Nat
    BY <1>5, <1>0
  <2> QED BY <1>5, <2>1 DEF Rest
<1> QED BY <1>1, <1>2, <1>3, <1>4, <1>5, FewLines

LEMMA RestOfTwo ==
  ASSUME NEW a \in Nat, NEW b \in Nat
  PROVE  <<a, b>> \in Seq(Nat) /\ Len(<<a, b>>) <= 4 /\ Rest(<<a, b>>) = a + b + 6
BY DEF Rest

LEMMA RestOfThree ==
  ASSUME NEW a \in Nat, NEW b \in Nat, NEW c \in Nat
  PROVE  <<a, b, c>> \in Seq(Nat) /\ Len(<<a, b, c>>) <= 4 /\ Rest(<<a, b, c>>) = a + b + c + 8
BY DEF Rest

LEMMA RestOfFour ==
  ASSUME NEW a \in Nat, NEW b \in Nat, NEW c \in Nat, NEW d \in Nat
  PROVE  /\ <<a, b, c, d>> \in Seq(Nat) /\ Len(<<a, b, c, d>>) <= 4
         /\ Rest(<<a, b, c, d>>) = a + b + c + d + 10
BY DEF Rest

LEMMA Appended ==
  ASSUME NEW s \in Seq(Nat), NEW e \in Nat
  PROVE  /\ Append(s, e) \in Seq(Nat) /\ Len(Append(s, e)) = Len(s) + 1
         /\ Append(s, e)[Len(s) + 1] = e
         /\ \A i \in 1 .. Len(s) : Append(s, e)[i] = s[i]
BY AppendProperties

LEMMA JoinedTwo ==
  ASSUME NEW a \in Nat, NEW b \in Nat, NEW c \in Nat
  PROVE  <<a, b>> \o <<c>> = <<a, b, c>>
<1> DEFINE s == <<a, b>>
           u == Append(s, c)
           t == <<a, b, c>>
<1>1. s \in Seq(Nat) /\ Len(s) = 2 /\ s[1] = a /\ s[2] = b
  OBVIOUS
<1>2. t \in Seq(Nat) /\ Len(t) = 3 /\ t[1] = a /\ t[2] = b /\ t[3] = c
  OBVIOUS
<1> HIDE DEF s, t
<1>3. /\ u \in Seq(Nat) /\ Len(u) = Len(s) + 1 /\ u[Len(s) + 1] = c
      /\ \A i \in 1 .. Len(s) : u[i] = s[i]
  BY <1>1, Appended
<1> HIDE DEF u
<1>4. Len(u) = 3 /\ u[3] = c /\ u[1] = a /\ u[2] = b
  BY <1>1, <1>3
<1>5. \A i \in 1 .. 3 : i = 1 \/ i = 2 \/ i = 3
  OBVIOUS
<1>6. \A i \in 1 .. 3 : u[i] = t[i]
  BY <1>2, <1>4, <1>5
<1>7. u = t
  BY <1>2, <1>3, <1>4, <1>6, SeqEqual
<1>8. s \o <<c>> = Append(s, c)
  BY <1>1, AppendIsConcat
<1> QED BY <1>7, <1>8 DEF u, s, t

LEMMA JoinedThree ==
  ASSUME NEW a \in Nat, NEW b \in Nat, NEW c \in Nat, NEW d \in Nat
  PROVE  <<a, b, c>> \o <<d>> = <<a, b, c, d>>
<1> DEFINE s == <<a, b, c>>
           u == Append(s, d)
           t == <<a, b, c, d>>
<1>1. s \in Seq(Nat) /\ Len(s) = 3 /\ s[1] = a /\ s[2] = b /\ s[3] = c
  OBVIOUS
<1>2. t \in Seq(Nat) /\ Len(t) = 4 /\ t[1] = a /\ t[2] = b /\ t[3] = c /\ t[4] = d
  OBVIOUS
<1> HIDE DEF s, t
<1>3. /\ u \in Seq(Nat) /\ Len(u) = Len(s) + 1 /\ u[Len(s) + 1] = d
      /\ \A i \in 1 .. Len(s) : u[i] = s[i]
  BY <1>1, Appended
<1> HIDE DEF u
<1>4. Len(u) = 4 /\ u[4] = d /\ u[1] = a /\ u[2] = b /\ u[3] = c
  BY <1>1, <1>3
<1>5. \A i \in 1 .. 4 : i = 1 \/ i = 2 \/ i = 3 \/ i = 4
  OBVIOUS
<1>6. \A i \in 1 .. 4 : u[i] = t[i]
  BY <1>2, <1>4, <1>5
<1>7. u = t
  BY <1>2, <1>3, <1>4, <1>6, SeqEqual
<1>8. s \o <<d>> = Append(s, d)
  BY <1>1, AppendIsConcat
<1> QED BY <1>7, <1>8 DEF u, s, t

LEMMA BuildStep == Room /\ Build => RequestInv'
<1> SUFFICES ASSUME Room, Build PROVE RequestInv'
  OBVIOUS
<1>0. phase' = "build" /\ mSendLen \in Nat /\ mSendLen >= 254
  BY BuilderAssumption DEF Build, locals, Room
<1>1. ASSUME NEW m \in {"OPTIONS", "DESCRIBE"}, UrlRequest(m) PROVE RequestInv'
  <2>1. PICK u \in UrlLens, c \in CSeqLens : begain_cmd(m, <<RequestLine(m, u), CSeqLine(c)>>)
    BY <1>1 DEF UrlRequest
  <2> DEFINE a == RequestLine(m, u)
             b == CSeqLine(c)
  <2>2. a \in Nat /\ a <= 145 /\ b \in Nat /\ b <= 15 /\ m \in Methods
    BY <1>1, MethodFacts, Lengths DEF RequestLine, CSeqLine
  <2> HIDE DEF a, b
  <2>3. <<a, b>> \in Seq(Nat) /\ Len(<<a, b>>) <= 4 /\ Rest(<<a, b>>) = a + b + 6
    BY <2>2, RestOfTwo
  <2>4. Rest(<<a, b>>) <= mSendLen
    BY <1>0, <2>2, <2>3
  <2>5. trackLen' = 0
    BY <1>1 DEF UrlRequest
  <2> QED BY <1>0, <2>1, <2>2, <2>3, <2>4, <2>5, Begun DEF a, b
<1>2. ASSUME NEW h, SetupRequest(h) PROVE RequestInv'
  <2>1. PICK c \in CSeqLens, p \in PortLens, t \in TrackLens \cup {NullLen} :
          /\ begain_cmd("SETUP", <<RequestLine("SETUP", t), CSeqLine(c), TransportLine(p)>>)
          /\ trackLen' = t
    BY <1>2 DEF SetupRequest
  <2> DEFINE a == RequestLine("SETUP", t)
             b == CSeqLine(c)
             d == TransportLine(p)
  <2>2. /\ t \in Nat /\ a \in Nat /\ a = t + 15 /\ b \in Nat /\ b <= 15 /\ d \in Nat /\ d <= 51
        /\ "SETUP" \in Methods
    BY MethodFacts, Lengths DEF RequestLine, CSeqLine, TransportLine
  <2> HIDE DEF a, b, d
  <2>3. <<a, b, d>> \in Seq(Nat) /\ Len(<<a, b, d>>) <= 4 /\ Rest(<<a, b, d>>) = a + b + d + 8
    BY <2>2, RestOfThree
  <2>4. t <= LongestTrack => Rest(<<a, b, d>>) <= mSendLen
    BY <1>0, <2>2, <2>3 DEF LongestTrack
  <2>5. (trackLen' <= LongestTrack => Rest(<<a, b, d>>) <= mSendLen) /\ trackLen' \in Nat
    BY <2>1, <2>2, <2>4
  <2> QED BY <1>0, <2>1, <2>2, <2>3, <2>5, Begun DEF a, b, d
<1>3. ASSUME NEW m \in {"PLAY", "PAUSE", "TEARDOWN"}, NEW h, SessionRequest(m, h) PROVE RequestInv'
  <2> DEFINE Range1 == IF m = "PLAY" THEN <<RangeLine>> ELSE <<>>
  <2>1. PICK u \in UrlLens, c \in CSeqLens, s \in SessionLens \cup {0} :
          begain_cmd(m, (<<RequestLine(m, u), CSeqLine(c)>> \o Range1) \o <<SessionLine(s)>>)
    BY <1>3 DEF SessionRequest
  <2> DEFINE a == RequestLine(m, u)
             b == CSeqLine(c)
             d == SessionLine(s)
             ls == (<<a, b>> \o Range1) \o <<d>>
  <2>2. /\ a \in Nat /\ a <= MethodLen[m] + 137 /\ b \in Nat /\ b <= 15 /\ d \in Nat /\ d <= 71
        /\ m \in Methods /\ MethodLen[m] \in Nat /\ MethodLen[m] <= 8 /\ (m = "PLAY" => MethodLen[m] = 4)
        /\ RangeLine = 17
    BY <1>3, MethodFacts, Lengths DEF RequestLine, CSeqLine, SessionLine, RangeLine
  <2> HIDE DEF a, b, d
  <2>3. ls \in Seq(Nat) /\ Len(ls) <= 4 /\ Rest(ls) <= 254
    <3>1. CASE m = "PLAY"
      <4>1. ls = <<a, b, RangeLine, d>>
        <5>0. RangeLine \in Nat
          BY <2>2
        <5>1. <<a, b>> \o <<RangeLine>> = <<a, b, RangeLine>>
          BY <2>2, <5>0, JoinedTwo
        <5>2. <<a, b, RangeLine>> \o <<d>> = <<a, b, RangeLine, d>>
          BY <2>2, <5>0, JoinedThree
        <5> QED BY <3>1, <5>1, <5>2
      <4>2. Rest(ls) = a + b + RangeLine + d + 10 /\ ls \in Seq(Nat) /\ Len(ls) <= 4
        <5>1. RangeLine \in Nat
          BY <2>2
        <5> HIDE DEF ls
        <5> QED BY <2>2, <4>1, <5>1, RestOfFour
      <4> HIDE DEF ls
      <4> QED BY <2>2, <3>1, <4>2
    <3>2. CASE m # "PLAY"
      <4>1. ls = <<a, b, d>>
        <5>1. <<a, b>> \in Seq(Nat)
          BY <2>2, RestOfTwo
        <5>2. <<a, b>> \o <<>> = <<a, b>>
          BY <5>1, ConcatEmptySeq
        <5>3. <<a, b>> \o <<d>> = <<a, b, d>>
          BY <2>2, JoinedTwo
        <5> QED BY <3>2, <5>2, <5>3
      <4>2. Rest(ls) = a + b + d + 8 /\ ls \in Seq(Nat) /\ Len(ls) <= 4
        <5> HIDE DEF ls
        <5> QED BY <2>2, <4>1, RestOfThree
      <4> HIDE DEF ls
      <4> QED BY <2>2, <4>2
    <3> QED BY <3>1, <3>2
  <2>4. begain_cmd(m, ls)
    BY <2>1 DEF a, b, d
  <2>5. trackLen' = 0
    BY <1>3 DEF SessionRequest
  <2> HIDE DEF ls
  <2>6. Rest(ls) <= mSendLen
    <3>1. \A n : n <= 254 /\ n \in Int => n <= mSendLen
      BY <1>0
    <3>2. Rest(ls) \in Int
      BY <2>3, RestInt
    <3> QED BY <2>3, <3>1, <3>2
  <2> QED BY <1>0, <2>2, <2>3, <2>4, <2>5, <2>6, Begun
<1> QED BY <1>1, <1>2, <1>3 DEF Build

LEMMA RequestInit == Init => RequestInv
<1> SUFFICES ASSUME Init PROVE RequestInv
  OBVIOUS
<1>1. mSendLen \in Nat /\ Len(<<>>) = 0
  BY BuilderAssumption
<1> QED BY <1>1 DEF Init, CmdInit, RequestInv, RequestWhole

LEMMA RequestStep == Room /\ RequestInv /\ [Next]_vars => RequestInv'
<1> SUFFICES ASSUME Room, RequestInv, [Next]_vars PROVE RequestInv'
  OBVIOUS
<1>0. mSendLen \in Nat
  BY BuilderAssumption
<1>1. CASE Build
  BY <1>1, BuildStep
<1>2. CASE AddLine
  <2>1. /\ phase = "build" /\ phase' = "build" /\ todo # <<>> /\ todo' = Tail(todo)
        /\ mSendOffset' = IF mSendOffset + Head(todo) + 2 > mSendLen
                          THEN mSendOffset ELSE mSendOffset + Head(todo) + 2
        /\ UNCHANGED <<request, whole, trackLen>>
    BY <1>2 DEF AddLine, add_line_cmd, locals
  <2>2. /\ Tail(todo) \in Seq(Nat) /\ Len(Tail(todo)) <= 4 /\ Head(todo) \in Nat
        /\ Rest(todo) = Head(todo) + 2 + Rest(Tail(todo)) /\ Rest(Tail(todo)) >= 2
        /\ Rest(Tail(todo)) \in Int
    <3>1. todo \in Seq(Nat) /\ Len(todo) <= 4
      BY DEF RequestInv
    <3>2. Tail(todo) \in Seq(Nat) /\ Len(Tail(todo)) <= 4
      BY <2>1, <3>1, RestTail
    <3>3. Rest(Tail(todo)) \in Int
      <4> DEFINE t == Tail(todo)
      <4>1. t \in Seq(Nat) /\ Len(t) <= 4
        BY <3>2
      <4> HIDE DEF t
      <4>2. Rest(t) \in Int
        BY <4>1, RestInt
      <4> QED BY <4>2 DEF t
    <3> QED BY <2>1, <3>1, <3>3, RestTail
  <2> DEFINE t == Tail(todo)
             r == Rest(t)
             n == Head(todo)
  <2>3. /\ t \in Seq(Nat) /\ Len(t) <= 4 /\ n \in Nat /\ r \in Int /\ r >= 2
        /\ mSendOffset \in Nat /\ mSendOffset <= mSendLen /\ whole \in Nat
    BY <2>1, <2>2 DEF RequestInv
  <2>4. request # "none" /\ trackLen <= LongestTrack =>
          mSendOffset + (n + 2 + r) = whole /\ whole <= mSendLen
    BY <2>1, <2>2 DEF RequestInv
  <2>5. mSendOffset' = IF mSendOffset + n + 2 > mSendLen THEN mSendOffset ELSE mSendOffset + n + 2
    BY <2>1
  <2>6. Rest(todo') = r /\ todo' = t
    BY <2>1
  <2> HIDE DEF t, r, n
  <2>7. mSendOffset' \in Nat /\ mSendOffset' <= mSendLen
    BY <1>0, <2>3, <2>5
  <2>8. request # "none" /\ trackLen <= LongestTrack => mSendOffset' + r = whole /\ whole <= mSendLen
    BY <1>0, <2>3, <2>4, <2>5
  <2>9. (phase = "build" /\ request # "none" /\ trackLen <= LongestTrack =>
           mSendOffset + Rest(todo) = whole /\ whole <= mSendLen)'
    <3>1. LongestTrack' = LongestTrack
      BY DEF LongestTrack
    <3> QED BY <2>1, <2>6, <2>8, <3>1 DEF Rest
  <2>10. RequestWhole'
    BY <2>1 DEF RequestWhole
  <2>11. request # "none"
    BY <2>1 DEF RequestInv
  <2>12. todo' \in Seq(Nat) /\ Len(todo') <= 4
    BY <2>3, <2>6
  <2> QED BY <2>1, <2>7, <2>9, <2>10, <2>11, <2>12 DEF RequestInv
<1>3. CASE Written
  <2>1. /\ phase = "build" /\ phase' = "status" /\ request # "none" /\ todo = <<>>
        /\ mSendOffset' = mSendOffset + 2 /\ UNCHANGED <<request, todo, whole, trackLen>>
    BY <1>3 DEF Written, end_cmd
  <2>2. /\ mSendOffset \in Nat /\ mSendOffset <= mSendLen
        /\ trackLen <= LongestTrack => mSendOffset + Rest(todo) = whole /\ whole <= mSendLen
    BY <2>1 DEF RequestInv
  <2>3. Rest(todo) = 2
    BY <2>1 DEF Rest
  <2>4. LongestTrack' = LongestTrack
    BY DEF LongestTrack
  <2>5. RequestWhole'
    BY <2>1, <2>2, <2>3, <2>4 DEF RequestWhole
  <2>6. mSendOffset' \in Nat /\ mSendOffset' <= mSendLen + 2
    BY <1>0, <2>1, <2>2
  <2> QED BY <2>1, <2>5, <2>6 DEF RequestInv
<1>4. CASE UNCHANGED cmdVars /\ (phase' = phase \/ (phase # "build" /\ phase' # "build"))
  <2>1. UNCHANGED <<request, todo, mSendOffset, whole, trackLen>> /\ LongestTrack' = LongestTrack
    BY <1>4 DEF cmdVars, LongestTrack
  <2>2. RequestWhole'
    BY <1>4, <2>1 DEF RequestInv, RequestWhole
  <2>3. Rest(todo)' = Rest(todo)
    BY <2>1 DEF Rest
  <2> QED BY <1>4, <2>1, <2>2, <2>3 DEF RequestInv
<1>5. ASSUME [Next]_vars, ~Build, ~AddLine, ~Written
      PROVE  UNCHANGED cmdVars /\ (phase' = phase \/ (phase # "build" /\ phase' # "build"))
  <2> USE DEF Result
  <2>1. CASE NothingRead \/ NoStatusLine \/ (\E code \in {200, 404} : StatusLine(code))
    BY <2>1 DEF NothingRead, NoStatusLine, StatusLine
  <2>2. CASE (\E l \in Header : HeaderLine(l)) \/ HeaderCut
    BY <2>2 DEF HeaderLine, AfterLine, HeaderCut
  <2>3. CASE DispatchDescribe \/ DispatchSetup \/ DispatchOther
    BY <2>3 DEF DispatchDescribe, DispatchSetup, DispatchOther
  <2>4. CASE ParseSdp \/ ParseTransport
    BY <2>4 DEF ParseSdp, ParseTransport
  <2>5. CASE UNCHANGED vars
    BY <2>5 DEF vars, locals
  <2> QED BY <1>5, <2>1, <2>2, <2>3, <2>4, <2>5 DEF Next
<1> QED BY <1>1, <1>2, <1>3, <1>4, <1>5

\* Every request is written whole and inside of mSendbuf, blank line included,
\* whatever URL, number, ports and session are in it, and SETUP for a track no
\* longer than LongestTrack.  For a longer track only this is left: add_line_cmd
\* never writes behind mSendbuf, and end_cmd by two bytes at most.
THEOREM RequestIsSent ==
  ASSUME Room
  PROVE  Spec => []RequestSent
<1>1. Init => RequestInv /\ ParseInv
  BY RequestInit, ParseInit
<1>2. RequestInv /\ ParseInv /\ [Next]_vars => (RequestInv /\ ParseInv)'
  BY RequestStep, ParseStep
<1>3. RequestInv /\ ParseInv => RequestSent
  <2> SUFFICES ASSUME RequestInv, ParseInv PROVE RequestSent
    OBVIOUS
  <2>1. CmdTypeOK /\ LinesFit
    <3>1. mSendOffset <= mSendLen + 2 /\ (todo # <<>> => mSendOffset <= mSendLen)
      BY BuilderAssumption DEF RequestInv
    <3> QED BY <3>1 DEF RequestInv, CmdTypeOK, LinesFit
  <2>2. fields \in Lines /\ tline \in Lines
    <3>1. /\ fields \in Seq(Field) /\ Len(fields) <= Len(tline) /\ Len(fields) \in Nat /\ Len(tline) \in Nat
          /\ tline \in Seq(Field) /\ Len(tline) <= MaxFields
      BY LenProperties DEF ParseInv, TrInv, TrShape
    <3>2. Len(fields) <= MaxFields
      BY <3>1, TransportAssumption
    <3> QED BY <3>1, <3>2, LinesAre
  <2>3. TypeOK
    BY <2>1, <2>2 DEF ParseInv, PhaseType, Phases, SdpInv, SdpShape, TypeOK
  <2> QED BY <2>1, <2>3 DEF RequestInv, RequestSent
<1> QED BY <1>1, <1>2, <1>3, PTL DEF Spec
=============================================================================
