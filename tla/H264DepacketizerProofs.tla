---------------------- MODULE H264DepacketizerProofs ----------------------
(***************************************************************************)
(* Proofs about H264Depacketizer for every size of the buffer, every way   *)
(* to send NAL units and every pattern of losses.                          *)
(***************************************************************************)
EXTENDS H264Depacketizer, SequenceTheorems, TLAPS

Frag == Nat \X Nat

\* What FramesOrdered asks of one frame.
Sorted(fr) ==
  /\ \A j, k \in DOMAIN fr : j < k => Before(fr[j], fr[k])
  /\ \A j \in DOMAIN fr : IsStart(fr[j]) => j = 1

\* No fragment is twice in the frames of q.
AllOnce(q) ==
  \A i, l \in DOMAIN q : \A j \in DOMAIN q[i], m \in DOMAIN q[l] :
    q[i][j] = q[l][m] => l = i /\ m = j

\* No fragment of the frames of q is in fr.
Apart(q, fr) ==
  \A i \in DOMAIN q : \A j \in DOMAIN q[i] : \A k \in DOMAIN fr : fr[k] # q[i][j]

\* Every fragment of the frames of q is in S.
Within(q, S) == \A i \in DOMAIN q : \A j \in DOMAIN q[i] : q[i][j] \in S

---------------------------------------------------------------------------
(* The inductive invariant *)

\* Payloads in flight are those of the newest NAL unit, in order, and all that
\* was delivered was sent before them: this is what keeps frames in order.
NetInv ==
  /\ shape \in Seq(Nat)
  /\ net \in Seq(Frag)
  /\ \A i \in DOMAIN net :
       /\ net[i][1] = Len(shape) /\ Len(shape) # 0 /\ net[i][2] # 0
       /\ shape[Len(shape)] # 0 => net[i][2] <= shape[Len(shape)]
  /\ \A i, j \in DOMAIN net : i < j => Before(net[i], net[j])
  /\ delivered \subseteq Frag
  /\ \A d \in delivered :
       /\ d[1] <= Len(shape)
       /\ \A i \in DOMAIN net : Before(d, net[i])
  /\ losses \in 0 .. MaxLost

BufferInv ==
  /\ mFUBuffer \in Seq(Frag)
  /\ \A i \in DOMAIN mFUBuffer : mFUBuffer[i] \in delivered \cap Fragments
  /\ Sorted(mFUBuffer)
  /\ mFUBufferOffset = Len(mFUBuffer)
       + (IF mFUBuffer # <<>> /\ IsStart(mFUBuffer[1]) THEN 1 ELSE 0)
  /\ mFUBufferOffset <= mFUBufferLen
  /\ overrun \in BOOLEAN

QueueInv ==
  /\ pQueH264 \in Seq(Seq(Frag))
  /\ \A i \in DOMAIN pQueH264 : Sorted(pQueH264[i])
  /\ Within(pQueH264, delivered)
  /\ AllOnce(pQueH264)
  /\ Apart(pQueH264, mFUBuffer)

IInv == NetInv /\ BufferInv /\ QueueInv

\* What is in flight is the rest of the newest NAL unit.
RestInv ==
  \A i \in DOMAIN net :
    shape[Len(shape)] # 0 => net[i][2] = shape[Len(shape)] - Len(net) + i

\* No end waits in the buffer: what is flushed or cut there is never complete.
OpenInv == \A k \in DOMAIN mFUBuffer : mFUBuffer[k][2] # shape[mFUBuffer[k][1]]

\* As long as nothing of a NAL unit that fits was lost the buffer holds it.
BuiltInv ==
  LET n == Len(shape) IN
    /\ net # <<>> /\ n # 0
    /\ shape[n] > 1 /\ shape[n] < mFUBufferLen
    /\ net[1][2] > 1 /\ \A p \in 1 .. net[1][2] - 1 : <<n, p>> \in delivered
    => mFUBuffer = [p \in 1 .. net[1][2] - 1 |-> <<n, p>>]

\* What WholeNalsSurvive says, overrun or not.
WholeInv ==
  /\ \A n \in Nals : Arrived(n) => \E i \in DOMAIN pQueH264 : pQueH264[i] = Parts(n)
  /\ \A i, j \in DOMAIN pQueH264 : \A n, m \in Nals :
       i < j /\ Arrived(n) /\ Arrived(m) /\ pQueH264[i] = Parts(n) /\ pQueH264[j] = Parts(m) => n < m

WInv == RestInv /\ OpenInv /\ BuiltInv /\ WholeInv

---------------------------------------------------------------------------
(* Frames *)

\* A later fragment is another fragment.
LEMMA BeforeDiffers ==
  ASSUME NEW f \in Frag, NEW g \in Frag, Before(f, g)
  PROVE  f # g
BY DEF Frag, Before

LEMMA SortedOnce ==
  ASSUME NEW fr \in Seq(Frag), Sorted(fr)
  PROVE  \A j, k \in DOMAIN fr : fr[j] = fr[k] => j = k
<1> SUFFICES ASSUME NEW j \in DOMAIN fr, NEW k \in DOMAIN fr, j # k
             PROVE  fr[j] # fr[k]
  OBVIOUS
<1>1. fr[j] \in Frag /\ fr[k] \in Frag /\ j \in Nat /\ k \in Nat
  OBVIOUS
<1>2. CASE j < k
  BY <1>1, <1>2, BeforeDiffers DEF Sorted
<1>3. CASE k < j
  BY <1>1, <1>3, BeforeDiffers DEF Sorted
<1> QED BY <1>1, <1>2, <1>3

\* A frame grows by a fragment sent after all it holds that is no start.
LEMMA SortedAppend ==
  ASSUME NEW fr \in Seq(Frag), Sorted(fr), NEW f \in Frag, ~IsStart(f),
         \A j \in DOMAIN fr : Before(fr[j], f)
  PROVE  Append(fr, f) \in Seq(Frag) /\ Sorted(Append(fr, f))
<1> DEFINE n == Len(fr)
           u == Append(fr, f)
<1>1. /\ u \in Seq(Frag) /\ DOMAIN u = 1 .. n + 1 /\ n \in Nat /\ DOMAIN fr = 1 .. n
      /\ u[n + 1] = f /\ \A i \in 1 .. n : u[i] = fr[i]
  OBVIOUS
<1> HIDE DEF u, n
<1>2. ASSUME NEW j \in DOMAIN u, NEW k \in DOMAIN u, j < k PROVE Before(u[j], u[k])
  <2>1. j \in 1 .. n /\ (k \in 1 .. n \/ k = n + 1)
    BY <1>1, <1>2
  <2> QED BY <1>1, <1>2, <2>1 DEF Sorted
<1>3. ASSUME NEW j \in DOMAIN u, IsStart(u[j]) PROVE j = 1
  <2>1. j \in 1 .. n \/ j = n + 1
    BY <1>1
  <2> QED BY <1>1, <1>3, <2>1 DEF Sorted
<1> QED BY <1>1, <1>2, <1>3 DEF Sorted, u

\* A sorted frame of fragments that are in no frame yet may be pushed.
LEMMA Pushed ==
  ASSUME NEW q \in Seq(Seq(Frag)), NEW fr \in Seq(Frag), NEW S,
         \A i \in DOMAIN q : Sorted(q[i]), AllOnce(q), Within(q, S),
         Sorted(fr), Apart(q, fr), \A j \in DOMAIN fr : fr[j] \in S
  PROVE  /\ Append(q, fr) \in Seq(Seq(Frag))
         /\ \A i \in DOMAIN Append(q, fr) : Sorted(Append(q, fr)[i])
         /\ AllOnce(Append(q, fr))
         /\ Within(Append(q, fr), S)
<1> DEFINE n == Len(q)
           u == Append(q, fr)
<1>1. /\ u \in Seq(Seq(Frag)) /\ DOMAIN u = 1 .. n + 1 /\ n \in Nat /\ DOMAIN q = 1 .. n
      /\ u[n + 1] = fr /\ \A i \in 1 .. n : u[i] = q[i]
  OBVIOUS
<1> HIDE DEF u, n
<1>2. \A i \in DOMAIN u : (i \in DOMAIN q /\ u[i] = q[i]) \/ (i = n + 1 /\ u[i] = fr)
  <2> SUFFICES ASSUME NEW i \in DOMAIN u
               PROVE  (i \in DOMAIN q /\ u[i] = q[i]) \/ (i = n + 1 /\ u[i] = fr)
    OBVIOUS
  <2>1. i \in 1 .. n \/ i = n + 1
    BY <1>1
  <2> QED BY <1>1, <2>1
<1>3. \A i \in DOMAIN u : Sorted(u[i])
  <2> SUFFICES ASSUME NEW i \in DOMAIN u PROVE Sorted(u[i])
    OBVIOUS
  <2>1. CASE i \in DOMAIN q /\ u[i] = q[i]
    BY <2>1
  <2>2. CASE u[i] = fr
    BY <2>2
  <2> QED BY <1>2, <2>1, <2>2
<1>4. AllOnce(u)
  <2> SUFFICES ASSUME NEW i \in DOMAIN u, NEW l \in DOMAIN u, NEW j \in DOMAIN u[i],
                      NEW m \in DOMAIN u[l], u[i][j] = u[l][m]
               PROVE  l = i /\ m = j
    BY DEF AllOnce
  <2>1. CASE i \in DOMAIN q /\ u[i] = q[i] /\ l \in DOMAIN q /\ u[l] = q[l]
    BY <2>1 DEF AllOnce
  <2>2. CASE i \in DOMAIN q /\ u[i] = q[i] /\ u[l] = fr
    BY <2>2 DEF Apart
  <2>3. CASE u[i] = fr /\ l \in DOMAIN q /\ u[l] = q[l]
    BY <2>3 DEF Apart
  <2>4. CASE i = n + 1 /\ u[i] = fr /\ l = n + 1 /\ u[l] = fr
    BY <2>4, SortedOnce
  <2> QED BY <1>2, <2>1, <2>2, <2>3, <2>4
<1>5. Within(u, S)
  BY <1>2 DEF Within
<1> QED BY <1>1, <1>3, <1>4, <1>5 DEF u

\* So does appending to the buffer what is in no frame yet.
LEMMA ApartAppend ==
  ASSUME NEW q \in Seq(Seq(Frag)), NEW fr \in Seq(Frag), NEW f \in Frag, NEW S,
         Apart(q, fr), Within(q, S), f \notin S
  PROVE  Apart(q, Append(fr, f)) /\ Apart(q, <<f>>) /\ Apart(q, <<>>)
<1>1. Apart(q, Append(fr, f))
  <2> DEFINE n == Len(fr)
             u == Append(fr, f)
  <2>1. /\ DOMAIN u = 1 .. n + 1 /\ n \in Nat /\ DOMAIN fr = 1 .. n
        /\ u[n + 1] = f /\ \A i \in 1 .. n : u[i] = fr[i]
    OBVIOUS
  <2> HIDE DEF u, n
  <2>2. \A k \in DOMAIN u : (k \in DOMAIN fr /\ u[k] = fr[k]) \/ u[k] = f
    BY <2>1
  <2>3. Apart(q, u)
    BY <2>2 DEF Apart, Within
  <2> QED BY <2>3 DEF u
<1>2. Apart(q, <<f>>)
  <2>1. \A k \in DOMAIN <<f>> : <<f>>[k] = f
    OBVIOUS
  <2> QED BY <2>1 DEF Apart, Within
<1>3. Apart(q, <<>>)
  BY DEF Apart
<1> QED BY <1>1, <1>2, <1>3

LEMMA ApartPushed ==
  ASSUME NEW q \in Seq(Seq(Frag)), NEW fr \in Seq(Frag), NEW b \in Seq(Frag),
         Apart(q, b), \A j \in DOMAIN fr : \A i \in DOMAIN b : b[i] # fr[j]
  PROVE  Apart(Append(q, fr), b)
<1> DEFINE n == Len(q)
           u == Append(q, fr)
<1>1. /\ DOMAIN u = 1 .. n + 1 /\ n \in Nat /\ DOMAIN q = 1 .. n
      /\ u[n + 1] = fr /\ \A i \in 1 .. n : u[i] = q[i]
  OBVIOUS
<1> HIDE DEF u, n
<1>2. \A i \in DOMAIN u : (i \in DOMAIN q /\ u[i] = q[i]) \/ u[i] = fr
  <2> SUFFICES ASSUME NEW i \in DOMAIN u
               PROVE  (i \in DOMAIN q /\ u[i] = q[i]) \/ u[i] = fr
    OBVIOUS
  <2>1. i \in 1 .. n \/ i = n + 1
    BY <1>1
  <2> QED BY <1>1, <2>1
<1>3. Apart(u, b)
  BY <1>2 DEF Apart
<1> QED BY <1>3 DEF u

---------------------------------------------------------------------------
(* The server, the network and the receiver *)

LEMMA TailNet ==
  ASSUME NetInv, net # <<>>
  PROVE  /\ Head(net) \in Frag /\ Head(net) \notin delivered
         /\ \A d \in delivered : Before(d, Head(net))
         /\ Tail(net) \in Seq(Frag)
         /\ \A i \in DOMAIN Tail(net) : i + 1 \in DOMAIN net /\ Tail(net)[i] = net[i + 1]
         /\ 1 \in DOMAIN net /\ Head(net) = net[1]
         /\ \A i \in DOMAIN Tail(net) : Before(Head(net), Tail(net)[i])
<1>1. /\ 1 \in DOMAIN net /\ Head(net) = net[1] /\ Head(net) \in Frag
      /\ Tail(net) \in Seq(Frag)
      /\ \A i \in DOMAIN Tail(net) : i \in Nat /\ i # 0 /\ i + 1 \in DOMAIN net /\ Tail(net)[i] = net[i + 1]
  BY DEF NetInv
<1>2. \A d \in delivered : d \in Frag /\ Before(d, Head(net))
  BY <1>1 DEF NetInv
<1>3. Head(net) \notin delivered
  BY <1>1, <1>2, BeforeDiffers
<1>4. ASSUME NEW i \in DOMAIN Tail(net) PROVE Before(Head(net), Tail(net)[i])
  BY <1>1 DEF NetInv
<1> QED BY <1>1, <1>2, <1>3, <1>4

\* What is left in flight after its head was lost or delivered.
LEMMA TailStep ==
  ASSUME NetInv, net # <<>>, net' = Tail(net), shape' = shape,
         delivered' = delivered \/ delivered' = delivered \cup {Head(net)},
         losses' \in 0 .. MaxLost
  PROVE  NetInv'
<1>1. net' \in Seq(Frag) /\ \A i \in DOMAIN net' : i + 1 \in DOMAIN net /\ net'[i] = net[i + 1] /\ i \in Nat
  BY TailNet
<1>2. \A i \in DOMAIN net' :
        /\ net'[i][1] = Len(shape) /\ Len(shape) # 0 /\ net'[i][2] # 0
        /\ shape[Len(shape)] # 0 => net'[i][2] <= shape[Len(shape)]
  BY <1>1 DEF NetInv
<1>3. \A i, j \in DOMAIN net' : i < j => Before(net'[i], net'[j])
  BY <1>1 DEF NetInv
<1>4. Head(net) \in Frag /\ Head(net)[1] = Len(shape) /\ Len(shape) \in Nat
  BY TailNet DEF NetInv
<1>5. delivered' \subseteq Frag
  BY <1>4 DEF NetInv
<1>6. ASSUME NEW d \in delivered' PROVE d[1] <= Len(shape) /\ \A i \in DOMAIN net' : Before(d, net'[i])
  <2>1. CASE d \in delivered
    BY <1>1, <2>1 DEF NetInv
  <2>2. CASE d = Head(net)
    BY <1>4, <2>2, TailNet
  <2> QED BY <2>1, <2>2
<1>7. shape' \in Seq(Nat)
  BY DEF NetInv
<1> QED BY <1>1, <1>2, <1>3, <1>5, <1>6, <1>7 DEF NetInv, Before

\* Fragments already sent stay fragments when another NAL unit is.
LEMMA FragmentsKept ==
  ASSUME shape \in Seq(Nat),
         shape' = shape \/ \E s \in Nat : shape' = Append(shape, s)
  PROVE  \A f \in Fragments : f \in Fragments'
<1>1. \A n \in 1 .. Len(shape) : n \in 1 .. Len(shape') /\ shape'[n] = shape[n]
  OBVIOUS
<1> QED BY <1>1 DEF Fragments, Nals

LEMMA SendStep ==
  ASSUME IInv, NEW s \in Shapes, SendNal(s)
  PROVE  IInv'
<1> DEFINE n == Len(shape)
<1>1. /\ s \in Nat /\ shape \in Seq(Nat) /\ shape' = Append(shape, s)
      /\ UNCHANGED <<mFUBuffer, mFUBufferOffset, pQueH264, overrun, delivered, losses>>
      /\ net' = IF s = 0 THEN <<<<n + 1, 1>>>> ELSE [p \in 1 .. s |-> <<n + 1, p>>]
  BY DepacketizerAssumption DEF SendNal, IInv, NetInv, parser
<1>2. n \in Nat /\ shape' \in Seq(Nat) /\ Len(shape') = n + 1 /\ shape'[n + 1] = s
  BY <1>1
<1>3. /\ net' \in Seq(Frag)
      /\ \A i \in DOMAIN net' : /\ net'[i] = <<n + 1, i>> /\ i \in Nat /\ i # 0
                                /\ s # 0 => i <= s
  <2> HIDE DEF n
  <2>1. CASE s = 0
    BY <1>1, <1>2, <2>1 DEF Frag
  <2>2. CASE s # 0
    <3>1. net' = [p \in 1 .. s |-> <<n + 1, p>>]
      BY <1>1, <2>2
    <3>2. \A p \in 1 .. s : <<n + 1, p>> \in Frag
      BY <1>2 DEF Frag
    <3>3. [p \in 1 .. s |-> <<n + 1, p>>] \in Seq(Frag)
      BY <1>1, <3>2, IsASeq
    <3>4. DOMAIN net' = 1 .. s /\ \A i \in 1 .. s : net'[i] = <<n + 1, i>>
      BY <3>1
    <3>5. net' \in Seq(Frag)
      BY <3>1, <3>3, Zenon
    <3>6. \A i \in 1 .. s : i \in Nat /\ i # 0 /\ i <= s
      BY <1>1
    <3> QED BY <3>4, <3>5, <3>6
  <2> QED BY <2>1, <2>2
<1> HIDE DEF n
<1>4. NetInv'
  <2>1. \A i \in DOMAIN net' :
          /\ net'[i][1] = n + 1 /\ n + 1 # 0 /\ net'[i][2] # 0
          /\ s # 0 => net'[i][2] <= s
    BY <1>2, <1>3
  <2>2. \A i, j \in DOMAIN net' : i < j => Before(net'[i], net'[j])
    BY <1>2, <1>3 DEF Before
  <2>3. \A d \in delivered : d \in Frag /\ d[1] <= n
    BY DEF IInv, NetInv, n
  <2>4. \A d \in delivered : d[1] <= n + 1 /\ \A i \in DOMAIN net' : Before(d, net'[i])
    BY <1>2, <1>3, <2>3 DEF Before, Frag
  <2>5. delivered \subseteq Frag /\ losses \in 0 .. MaxLost
    BY DEF IInv, NetInv
  <2>6. \A i \in DOMAIN net' :
          /\ net'[i][1] = Len(shape') /\ Len(shape') # 0 /\ net'[i][2] # 0
          /\ shape'[Len(shape')] # 0 => net'[i][2] <= shape'[Len(shape')]
    BY <1>2, <2>1
  <2>7. \A d \in delivered' :
          /\ d[1] <= Len(shape')
          /\ \A i \in DOMAIN net' : Before(d, net'[i])
    BY <1>1, <1>2, <2>4
  <2>8. delivered' \subseteq Frag /\ losses' \in 0 .. MaxLost
    BY <1>1, <2>5
  <2> QED BY <1>2, <1>3, <2>2, <2>6, <2>7, <2>8 DEF NetInv, Before
<1>5. BufferInv'
  <2>1. \A f \in Fragments : f \in Fragments'
    BY <1>1, FragmentsKept
  <2> QED BY <1>1, <2>1 DEF IInv, BufferInv, Sorted, Before, IsStart
<1>6. QueueInv'
  BY <1>1 DEF IInv, QueueInv, Sorted, Before, IsStart, Within, AllOnce, Apart
<1> QED BY <1>4, <1>5, <1>6 DEF IInv

\* Delivery of a fragment the parser leaves alone, pushes, or puts in its buffer.
LEMMA Delivery ==
  ASSUME IInv, net # <<>>, shape' = shape, net' = Tail(net),
         delivered' = delivered \cup {Head(net)}, losses' = losses
  PROVE  /\ NetInv'
         /\ Within(pQueH264, delivered')
         /\ \A i \in DOMAIN mFUBuffer : mFUBuffer[i] \in delivered' \cap Fragments'
         /\ Head(net) \in Frag /\ Head(net) \notin delivered /\ Head(net) \in delivered'
         /\ \A j \in DOMAIN mFUBuffer : Before(mFUBuffer[j], Head(net))
         /\ Apart(pQueH264, Append(mFUBuffer, Head(net)))
         /\ Apart(pQueH264, <<Head(net)>>) /\ Apart(pQueH264, <<>>)
<1>1. NetInv'
  BY TailStep DEF IInv, NetInv
<1>2. /\ Head(net) \in Frag /\ Head(net) \notin delivered
      /\ \A d \in delivered : Before(d, Head(net))
  BY TailNet DEF IInv
<1>3. Within(pQueH264, delivered')
  BY DEF IInv, QueueInv, Within
<1>4. Fragments' = Fragments
  BY DEF Fragments, Nals
<1>5. \A i \in DOMAIN mFUBuffer : mFUBuffer[i] \in delivered /\ mFUBuffer[i] \in Fragments
  BY DEF IInv, BufferInv
<1>6. /\ Apart(pQueH264, Append(mFUBuffer, Head(net)))
      /\ Apart(pQueH264, <<Head(net)>>) /\ Apart(pQueH264, <<>>)
  BY <1>2, ApartAppend DEF IInv, QueueInv, BufferInv
<1> QED BY <1>1, <1>2, <1>3, <1>4, <1>5, <1>6

\* A fragment of a NAL unit sent in fragments is one of those it was cut into.
LEMMA Fragmented ==
  ASSUME NetInv, net # <<>>, get_nal_type(Head(net)) = "FU_A"
  PROVE  Head(net) \in Fragments
<1> DEFINE f == Head(net)
<1>1. f \in Frag /\ f = net[1] /\ 1 \in DOMAIN net
  BY TailNet
<1>2. f[1] = Len(shape) /\ Len(shape) # 0 /\ f[2] # 0
      /\ (shape[Len(shape)] # 0 => f[2] <= shape[Len(shape)])
  BY <1>1 DEF NetInv
<1>3. shape[f[1]] # 0
  <2> SUFFICES ASSUME shape[f[1]] = 0 PROVE FALSE
    OBVIOUS
  <2>1. get_nal_type(f) = "UNDEFINED"
    BY DEF get_nal_type
  <2> QED BY <2>1
<1>4. Len(shape) \in 1 .. Len(shape) /\ shape[Len(shape)] \in Nat
  BY <1>2 DEF NetInv
<1>5. f = <<f[1], f[2]>> /\ f[2] \in Nat
  BY <1>1 DEF Frag
<1>6. f[2] \in 1 .. shape[f[1]] /\ f[1] \in 1 .. Len(shape)
  BY <1>2, <1>3, <1>4, <1>5
<1> HIDE DEF f
<1>7. f \in {f[1]} \X (1 .. shape[f[1]])
  BY <1>5, <1>6
<1>8. f \in Fragments
  BY <1>6, <1>7 DEF Fragments, Nals
<1> QED BY <1>8 DEF f

LEMMA DeliverStep == IInv /\ Deliver => IInv'
<1> SUFFICES ASSUME IInv, Deliver PROVE IInv'
  OBVIOUS
<1> DEFINE f == Head(net)
<1>1. /\ net # <<>> /\ shape' = shape /\ net' = Tail(net)
      /\ delivered' = delivered \cup {f} /\ losses' = losses
      /\ parse_payload(f)
  BY DEF Deliver
<1>2. /\ NetInv'
      /\ Within(pQueH264, delivered')
      /\ \A i \in DOMAIN mFUBuffer : mFUBuffer[i] \in delivered' \cap Fragments'
      /\ f \in Frag /\ f \notin delivered /\ f \in delivered'
      /\ \A j \in DOMAIN mFUBuffer : Before(mFUBuffer[j], f)
      /\ Apart(pQueH264, Append(mFUBuffer, f)) /\ Apart(pQueH264, <<f>>) /\ Apart(pQueH264, <<>>)
  BY <1>1, Delivery
<1>3. get_nal_type(f) = "FU_A" => f \in Fragments'
  <2>1. Fragments' = Fragments
    BY <1>1 DEF Fragments, Nals
  <2> QED BY <1>1, <2>1, Fragmented DEF IInv
<1> HIDE DEF f
<1>4. /\ mFUBuffer \in Seq(Frag) /\ Sorted(mFUBuffer) /\ overrun \in BOOLEAN
      /\ mFUBufferOffset = Len(mFUBuffer)
           + (IF mFUBuffer # <<>> /\ IsStart(mFUBuffer[1]) THEN 1 ELSE 0)
      /\ mFUBufferOffset <= mFUBufferLen
      /\ mFUBufferLen \in Nat /\ mFUBufferLen >= 2
  BY DepacketizerAssumption DEF IInv, BufferInv
<1>5. /\ pQueH264 \in Seq(Seq(Frag)) /\ \A i \in DOMAIN pQueH264 : Sorted(pQueH264[i])
      /\ AllOnce(pQueH264) /\ Apart(pQueH264, mFUBuffer)
  BY DEF IInv, QueueInv
<1>6. /\ <<f>> \in Seq(Frag) /\ Sorted(<<f>>) /\ Len(<<f>>) = 1 /\ <<f>>[1] = f /\ <<f>> # <<>>
      /\ DOMAIN <<f>> = {1}
  BY <1>2 DEF Sorted
<1>7. ASSUME mFUBuffer' = mFUBuffer, mFUBufferOffset' = mFUBufferOffset, overrun' = overrun
      PROVE  BufferInv'
  BY <1>2, <1>4, <1>7 DEF BufferInv, Sorted, Before, IsStart
<1>8. ASSUME Reset, overrun' \in BOOLEAN
      PROVE  BufferInv'
  BY <1>4, <1>8 DEF BufferInv, Reset, Sorted
<1>9. CASE Single(f)
  <2>1. pQueH264' = Append(pQueH264, <<f>>) /\ mFUBuffer' = mFUBuffer
    BY <1>9 DEF Single
  <2>2. Apart(pQueH264, <<f>>) /\ (\A j \in DOMAIN <<f>> : <<f>>[j] \in delivered')
    BY <1>2, <1>6
  <2>3. /\ pQueH264' \in Seq(Seq(Frag)) /\ (\A i \in DOMAIN pQueH264' : Sorted(pQueH264'[i]))
        /\ Within(pQueH264', delivered') /\ AllOnce(pQueH264')
    BY <1>2, <1>5, <1>6, <2>1, <2>2, Pushed
  <2>4. \A j \in DOMAIN <<f>> : \A i \in DOMAIN mFUBuffer : mFUBuffer[i] # <<f>>[j]
    BY <1>2, <1>4, <1>6, BeforeDiffers
  <2>5. Apart(pQueH264', mFUBuffer')
    BY <1>4, <1>5, <1>6, <2>1, <2>4, ApartPushed
  <2>6. BufferInv'
    BY <1>7, <1>9 DEF Single
  <2> QED BY <1>2, <2>3, <2>5, <2>6 DEF IInv, QueueInv, Sorted, Before, IsStart, Within, AllOnce, Apart
<1>10. CASE Unsupported(f)
  <2>1. UNCHANGED parser
    BY <1>10 DEF Unsupported
  <2>2. BufferInv'
    BY <1>7, <2>1 DEF parser
  <2>3. QueueInv'
    BY <1>2, <1>5, <2>1 DEF parser, QueueInv, Sorted, Before, IsStart, Within, AllOnce, Apart
  <2> QED BY <1>2, <2>2, <2>3 DEF IInv
<1>11. CASE Start(f)
  <2>1. /\ pQueH264' = IF mFUBufferOffset # 0 THEN Append(pQueH264, mFUBuffer) ELSE pQueH264
        /\ mFUBuffer' = <<f>> /\ mFUBufferOffset' = 2 /\ overrun' = overrun
        /\ IsStart(f) /\ get_nal_type(f) = "FU_A"
    BY <1>11 DEF Start
  <2>2. BufferInv'
    BY <1>2, <1>3, <1>4, <1>6, <2>1 DEF BufferInv, Sorted, IsStart
  <2>3. \A j \in DOMAIN mFUBuffer : \A i \in DOMAIN <<f>> : <<f>>[i] # mFUBuffer[j]
    BY <1>2, <1>4, <1>6, BeforeDiffers
  <2>4. CASE mFUBufferOffset # 0
    <3>1. pQueH264' = Append(pQueH264, mFUBuffer)
      BY <2>1, <2>4
    <3>2. \A j \in DOMAIN mFUBuffer : mFUBuffer[j] \in delivered'
      BY <1>2
    <3>3. /\ pQueH264' \in Seq(Seq(Frag)) /\ (\A i \in DOMAIN pQueH264' : Sorted(pQueH264'[i]))
          /\ Within(pQueH264', delivered') /\ AllOnce(pQueH264')
      BY <1>2, <1>4, <1>5, <3>1, <3>2, Pushed
    <3>4. Apart(pQueH264', mFUBuffer')
      BY <1>2, <1>4, <1>5, <1>6, <2>1, <2>3, <3>1, ApartPushed
    <3> QED BY <1>2, <2>2, <3>3, <3>4 DEF IInv, QueueInv, Sorted, Before, IsStart, Within, AllOnce, Apart
  <2>5. CASE mFUBufferOffset = 0
    <3>1. pQueH264' = pQueH264
      BY <2>1, <2>5
    <3> QED BY <1>2, <1>5, <2>1, <2>2, <3>1
            DEF IInv, QueueInv, Sorted, Before, IsStart, Within, AllOnce, Apart
  <2> QED BY <2>4, <2>5
<1>12. CASE End(f)
  <2> DEFINE fr == Append(mFUBuffer, f)
  <2>1. pQueH264' = Append(pQueH264, fr) /\ Reset /\ overrun' \in BOOLEAN /\ ~IsStart(f)
    BY <1>4, <1>12 DEF End
  <2>2. fr \in Seq(Frag) /\ Sorted(fr)
    BY <1>2, <1>4, <2>1, SortedAppend
  <2>3. \A j \in DOMAIN fr : fr[j] \in delivered'
    <3>1. \A j \in DOMAIN fr : (j \in DOMAIN mFUBuffer /\ fr[j] = mFUBuffer[j]) \/ fr[j] = f
      BY <1>2, <1>4
    <3> QED BY <1>2, <3>1
  <2>4. Apart(pQueH264, fr)
    BY <1>2
  <2> HIDE DEF fr
  <2>5. /\ pQueH264' \in Seq(Seq(Frag)) /\ (\A i \in DOMAIN pQueH264' : Sorted(pQueH264'[i]))
        /\ Within(pQueH264', delivered') /\ AllOnce(pQueH264')
    BY <1>2, <1>5, <2>1, <2>2, <2>3, <2>4, Pushed
  <2>6. Apart(pQueH264', mFUBuffer')
    BY <2>1 DEF Reset, Apart
  <2>7. BufferInv'
    BY <1>8, <2>1
  <2> QED BY <1>2, <2>5, <2>6, <2>7 DEF IInv, QueueInv, Sorted, Before, IsStart, Within, AllOnce, Apart
<1>13. CASE Middle(f)
  <2>1. overrun' = overrun /\ ~IsStart(f) /\ get_nal_type(f) = "FU_A"
    BY <1>13 DEF Middle
  <2>2. ASSUME pQueH264' = Append(pQueH264, mFUBuffer), Reset
        PROVE  IInv'
    <3>1. \A j \in DOMAIN mFUBuffer : mFUBuffer[j] \in delivered'
      BY <1>2
    <3>2. /\ pQueH264' \in Seq(Seq(Frag)) /\ (\A i \in DOMAIN pQueH264' : Sorted(pQueH264'[i]))
          /\ Within(pQueH264', delivered') /\ AllOnce(pQueH264')
      BY <1>2, <1>4, <1>5, <2>2, <3>1, Pushed
    <3>3. Apart(pQueH264', mFUBuffer')
      BY <2>2 DEF Reset, Apart
    <3>4. BufferInv'
      BY <1>4, <1>8, <2>1, <2>2
    <3> QED BY <1>2, <3>2, <3>3, <3>4 DEF IInv, QueueInv, Sorted, Before, IsStart, Within, AllOnce, Apart
  <2>3. ASSUME mFUBufferOffset + 1 <= mFUBufferLen, mFUBuffer' = Append(mFUBuffer, f),
               mFUBufferOffset' = mFUBufferOffset + 1, pQueH264' = pQueH264
        PROVE  IInv'
    <3> DEFINE b == Append(mFUBuffer, f)
    <3>1. b \in Seq(Frag) /\ Sorted(b)
      BY <1>2, <1>4, <2>1, SortedAppend
    <3>2. /\ Len(b) = Len(mFUBuffer) + 1 /\ b # <<>> /\ Len(mFUBuffer) \in Nat
          /\ IF mFUBuffer = <<>> THEN b[1] = f ELSE b[1] = mFUBuffer[1]
      <4>1. /\ Len(b) = Len(mFUBuffer) + 1 /\ Len(mFUBuffer) \in Nat
            /\ b[Len(mFUBuffer) + 1] = f /\ \A i \in 1 .. Len(mFUBuffer) : b[i] = mFUBuffer[i]
        BY <1>2, <1>4
      <4>2. mFUBuffer = <<>> <=> Len(mFUBuffer) = 0
        BY <1>4
      <4>3. b # <<>>
        BY <4>1
      <4> QED BY <4>1, <4>2, <4>3
    <3>3. \A i \in DOMAIN b : b[i] \in delivered' \cap Fragments'
      <4>1. \A i \in DOMAIN b : (i \in DOMAIN mFUBuffer /\ b[i] = mFUBuffer[i]) \/ b[i] = f
        BY <1>2, <1>4
      <4> QED BY <1>2, <1>3, <2>1, <4>1
    <3>4. Apart(pQueH264, b)
      BY <1>2
    <3>5. mFUBuffer' = b
      BY <2>3
    <3> HIDE DEF b
    <3>6. mFUBufferOffset' = Len(b) + (IF b # <<>> /\ IsStart(b[1]) THEN 1 ELSE 0)
      BY <1>4, <2>1, <2>3, <3>2
    <3>7. BufferInv'
      BY <1>4, <2>1, <2>3, <3>1, <3>3, <3>5, <3>6 DEF BufferInv, Sorted, Before, IsStart
    <3> QED BY <1>2, <1>5, <2>3, <3>4, <3>5, <3>7
            DEF IInv, QueueInv, Sorted, Before, IsStart, Within, AllOnce, Apart
  <2> QED BY <1>13, <2>2, <2>3 DEF Middle
<1> QED BY <1>1, <1>9, <1>10, <1>11, <1>12, <1>13 DEF parse_payload

---------------------------------------------------------------------------
(* Complete NAL units *)

LEMMA TypeOf ==
  ASSUME NEW f
  PROVE  /\ shape[f[1]] = 0 => get_nal_type(f) = "UNDEFINED"
         /\ shape[f[1]] = 1 => get_nal_type(f) = "SINGLE"
         /\ shape[f[1]] # 0 /\ shape[f[1]] # 1 => get_nal_type(f) = "FU_A"
<1>1. ASSUME shape[f[1]] = 0 PROVE get_nal_type(f) = "UNDEFINED"
  BY <1>1 DEF get_nal_type
<1>2. ASSUME shape[f[1]] = 1 PROVE get_nal_type(f) = "SINGLE"
  BY <1>2 DEF get_nal_type
<1>3. ASSUME shape[f[1]] # 0, shape[f[1]] # 1 PROVE get_nal_type(f) = "FU_A"
  BY <1>3 DEF get_nal_type
<1> QED BY <1>1, <1>2, <1>3

\* Which part of the newest NAL unit is next, and what is left after it.
LEMMA NextPart ==
  ASSUME NetInv, RestInv, net # <<>>, net' = Tail(net), shape' = shape
  PROVE  LET n == Len(shape)
             f == Head(net)
         IN /\ n \in Nals /\ n \in Nat \ {0} /\ shape[n] \in Nat /\ f[2] \in Nat \ {0}
            /\ f = <<n, f[2]>> /\ f = net[1]
            /\ shape[n] # 0 => f[2] <= shape[n] /\ (net' # <<>> <=> f[2] < shape[n])
            /\ shape[n] # 0 /\ net' # <<>> => net'[1][2] = f[2] + 1
            /\ RestInv'
<1> DEFINE n == Len(shape)
           f == Head(net)
           t == Tail(net)
<1>1. /\ f \in Frag /\ f = net[1] /\ 1 \in DOMAIN net /\ t \in Seq(Frag)
      /\ \A i \in DOMAIN t : i + 1 \in DOMAIN net /\ t[i] = net[i + 1]
  BY TailNet
<1>2. n \in Nat \ {0} /\ shape[n] \in Nat /\ n \in Nals /\ f[1] = n /\ f[2] # 0
  BY <1>1 DEF NetInv, Nals
<1>3. f[2] \in Nat /\ f = <<n, f[2]>>
  BY <1>1, <1>2 DEF Frag
<1>4. /\ Len(net) \in Nat /\ Len(net) # 0 /\ Len(t) = Len(net) - 1
      /\ DOMAIN t = 1 .. Len(t) /\ (t # <<>> <=> Len(t) # 0)
  <2>1. net \in Seq(Frag)
    BY DEF NetInv
  <2>2. Len(t) = Len(net) - 1 /\ Len(net) \in Nat /\ Len(net) # 0
    BY <2>1
  <2> HIDE DEF t
  <2>3. DOMAIN t = 1 .. Len(t) /\ (t # <<>> <=> Len(t) # 0)
    BY <1>1
  <2> QED BY <2>2, <2>3
<1>5. shape[n] # 0 => f[2] = shape[n] - Len(net) + 1
  BY <1>1 DEF RestInv
<1>6. \A i \in DOMAIN t : shape[n] # 0 => t[i][2] = shape[n] - Len(t) + i
  <2> SUFFICES ASSUME NEW i \in DOMAIN t, shape[n] # 0 PROVE t[i][2] = shape[n] - Len(t) + i
    OBVIOUS
  <2>1. net[i + 1][2] = shape[n] - Len(net) + (i + 1)
    BY <1>1 DEF RestInv
  <2>2. i \in Nat
    BY <1>4
  <2> QED BY <1>1, <1>2, <1>4, <2>1, <2>2
<1> HIDE DEF f, t, n
<1>7. shape[n] # 0 => f[2] <= shape[n] /\ (t # <<>> <=> f[2] < shape[n])
  BY <1>2, <1>3, <1>4, <1>5
<1>8. shape[n] # 0 /\ t # <<>> => t[1][2] = f[2] + 1
  <2> SUFFICES ASSUME shape[n] # 0, t # <<>> PROVE t[1][2] = f[2] + 1
    OBVIOUS
  <2>1. 1 \in DOMAIN t
    BY <1>4
  <2>2. t[1][2] = shape[n] - Len(t) + 1
    BY <1>6, <2>1
  <2> QED BY <1>2, <1>4, <1>5, <2>2
<1>9. RestInv'
  BY <1>6 DEF RestInv, t, n
<1> QED BY <1>1, <1>2, <1>3, <1>7, <1>8, <1>9 DEF f, t, n

\* A delivered part of the newest NAL unit comes before the next one.
LEMMA PartsInOrder ==
  ASSUME NetInv, net # <<>>, NEW p \in Nat, <<Len(shape), p>> \in delivered
  PROVE  p < Head(net)[2]
<1>1. Before(<<Len(shape), p>>, Head(net)) /\ Head(net) \in Frag
  BY TailNet
<1>2. Head(net)[1] = Len(shape) /\ Len(shape) \in Nat /\ Head(net)[2] \in Nat
  BY <1>1, TailNet DEF NetInv, Frag
<1> QED BY <1>1, <1>2 DEF Before

\* A frame is sent part by part.
LEMMA PartsGrow ==
  ASSUME NEW n \in Nat, NEW q \in Nat
  PROVE  Append([p \in 1 .. q |-> <<n, p>>], <<n, q + 1>>) = [p \in 1 .. q + 1 |-> <<n, p>>]
<1> DEFINE s == [p \in 1 .. q |-> <<n, p>>]
           t == [p \in 1 .. q + 1 |-> <<n, p>>]
           u == Append(s, <<n, q + 1>>)
<1>1. s \in Seq(Frag) /\ t \in Seq(Frag) /\ Len(s) = q /\ Len(t) = q + 1
  <2>1. \A p \in 1 .. q : <<n, p>> \in Frag
    BY DEF Frag
  <2>2. \A p \in 1 .. q + 1 : <<n, p>> \in Frag
    BY DEF Frag
  <2>3. s \in Seq(Frag)
    BY <2>1, IsASeq
  <2>4. t \in Seq(Frag)
    BY <2>2, IsASeq
  <2> QED BY <2>3, <2>4
<1>2. /\ \A p \in 1 .. q : s[p] = <<n, p>>
      /\ \A p \in 1 .. q + 1 : t[p] = <<n, p>>
      /\ <<n, q + 1>> \in Frag
  BY DEF Frag
<1> HIDE DEF s, t
<1>3. /\ u \in Seq(Frag) /\ Len(u) = q + 1 /\ u[q + 1] = <<n, q + 1>>
      /\ \A p \in 1 .. q : u[p] = s[p]
  BY <1>1, <1>2
<1> HIDE DEF u
<1>4. ASSUME NEW p \in 1 .. q + 1 PROVE u[p] = t[p]
  <2>1. p \in 1 .. q \/ p = q + 1
    OBVIOUS
  <2> QED BY <1>2, <1>3, <2>1
<1>5. u = t
  BY <1>1, <1>3, <1>4, SeqEqual
<1> QED BY <1>5 DEF s, t, u

\* A frame the queue gains is a complete NAL unit only if it was just completed.
LEMMA FrameGained ==
  ASSUME IInv, OpenInv, WholeInv, Deliver, NEW fr \in Seq(Frag),
         pQueH264' = Append(pQueH264, fr),
         fr = mFUBuffer \/ \E k \in DOMAIN fr : fr[k] = Head(net)
  PROVE  \A i, j \in DOMAIN pQueH264' : \A n, m \in Nals :
           i < j /\ Arrived(n)' /\ Arrived(m)' /\ pQueH264'[i] = Parts(n) /\ pQueH264'[j] = Parts(m)
             => n < m
<1> DEFINE f == Head(net)
           l == Len(pQueH264)
<1>1. /\ net # <<>> /\ shape' = shape /\ delivered' = delivered \cup {f}
  BY DEF Deliver
<1>2. /\ f \in Frag /\ f \notin delivered /\ f[1] = Len(shape) /\ Len(shape) \in Nat
  BY <1>1, TailNet DEF IInv, NetInv
<1>3. /\ pQueH264 \in Seq(Seq(Frag)) /\ Within(pQueH264, delivered)
  BY DEF IInv, QueueInv
<1>4. /\ l \in Nat /\ DOMAIN pQueH264 = 1 .. l /\ DOMAIN pQueH264' = 1 .. l + 1
      /\ pQueH264'[l + 1] = fr /\ \A i \in 1 .. l : pQueH264'[i] = pQueH264[i]
  BY <1>3
<1> HIDE DEF f, l
<1>5. ASSUME NEW n \in Nals, NEW i \in 1 .. l, Arrived(n)', pQueH264[i] = Parts(n)
      PROVE  Arrived(n) /\ \A p \in 1 .. shape[n] : <<n, p>> # f
  <2>1. DOMAIN pQueH264[i] = 1 .. shape[n] /\ \A p \in 1 .. shape[n] : pQueH264[i][p] = <<n, p>>
    BY <1>5 DEF Parts
  <2>2. ASSUME NEW p \in 1 .. shape[n] PROVE <<n, p>> \in delivered
    <3>1. i \in DOMAIN pQueH264 /\ p \in DOMAIN pQueH264[i] /\ pQueH264[i][p] = <<n, p>>
      BY <1>4, <2>1
    <3>2. pQueH264[i][p] \in delivered
      BY <1>3, <3>1 DEF Within
    <3> QED BY <3>1, <3>2
  <2> QED BY <1>1, <1>2, <1>5, <2>2 DEF Arrived
<1>6. ASSUME NEW m \in Nals, Arrived(m)', fr = Parts(m)
      PROVE  m = Len(shape) /\ \E p \in 1 .. shape[m] : <<m, p>> = f
  <2>1. /\ shape[m] \in Nat /\ shape[m] >= 1 /\ DOMAIN fr = 1 .. shape[m]
        /\ \A p \in 1 .. shape[m] : fr[p] = <<m, p>>
    BY <1>1, <1>6 DEF Parts, Arrived, IInv, NetInv, Nals
  <2>2. CASE fr = mFUBuffer
    <3>1. shape[m] \in DOMAIN mFUBuffer /\ mFUBuffer[shape[m]] = <<m, shape[m]>>
      BY <2>1, <2>2
    <3> QED BY <3>1 DEF OpenInv
  <2>3. CASE \E k \in DOMAIN fr : fr[k] = f
    <3> PICK k \in DOMAIN fr : fr[k] = f
      BY <2>3
    <3>1. k \in 1 .. shape[m] /\ <<m, k>> = f
      BY <2>1
    <3>2. m = f[1]
      BY <3>1
    <3> QED BY <1>2, <3>1, <3>2
  <2> QED BY <2>2, <2>3 DEF f
<1> SUFFICES ASSUME NEW i \in DOMAIN pQueH264', NEW j \in DOMAIN pQueH264',
                    NEW n \in Nals, NEW m \in Nals, i < j, Arrived(n)', Arrived(m)',
                    pQueH264'[i] = Parts(n), pQueH264'[j] = Parts(m)
             PROVE  n < m
  OBVIOUS
<1>7. i \in 1 .. l /\ pQueH264[i] = Parts(n)
  BY <1>4
<1>8. Arrived(n) /\ \A p \in 1 .. shape[n] : <<n, p>> # f
  BY <1>5, <1>7
<1>9. CASE j \in 1 .. l
  <2>1. pQueH264[j] = Parts(m) /\ Arrived(m)
    BY <1>4, <1>5, <1>9
  <2> QED BY <1>4, <1>7, <1>8, <1>9, <2>1 DEF WholeInv
<1>10. CASE j = l + 1
  <2>1. m = Len(shape) /\ \E p \in 1 .. shape[m] : <<m, p>> = f
    BY <1>4, <1>6, <1>10
  <2>2. n # m
    BY <1>8, <2>1
  <2>3. n \in Nat /\ n <= Len(shape)
    BY <1>2 DEF Nals
  <2> QED BY <1>2, <2>1, <2>2, <2>3
<1> QED BY <1>4, <1>9, <1>10

\* The step that completes a NAL unit pushes it, and only it.
LEMMA Completed ==
  ASSUME IInv, RestInv, BuiltInv, Deliver, NEW n \in Nals, Arrived(n)', ~Arrived(n)
  PROVE  \E i \in DOMAIN pQueH264' : pQueH264'[i] = Parts(n)
<1> DEFINE f == Head(net)
           q == f[2]
<1>1. /\ net # <<>> /\ shape' = shape /\ net' = Tail(net) /\ delivered' = delivered \cup {f}
      /\ parse_payload(f)
  BY DEF Deliver
<1>2. /\ f = net[1] /\ q \in Nat \ {0} /\ f = <<Len(shape), q>> /\ shape[Len(shape)] \in Nat
      /\ shape[Len(shape)] # 0 => q <= shape[Len(shape)]
  BY <1>1, NextPart DEF IInv
<1> HIDE DEF q
<1>3. n = Len(shape) /\ shape[n] >= 1 /\ shape[n] < mFUBufferLen
      /\ \A p \in 1 .. shape[n] : <<n, p>> \in delivered \cup {f}
  <2>1. shape[n] >= 1 /\ shape[n] < mFUBufferLen /\ \A p \in 1 .. shape[n] : <<n, p>> \in delivered \cup {f}
    BY <1>1 DEF Arrived
  <2>2. PICK p \in 1 .. shape[n] : <<n, p>> \notin delivered
    BY <2>1 DEF Arrived
  <2>3. <<n, p>> = f
    BY <2>1, <2>2
  <2> QED BY <1>2, <2>1, <2>3
<1>4. q = shape[n]
  <2>1. CASE <<n, shape[n]>> \in delivered
    <3>1. shape[n] < q
      BY <1>1, <1>2, <1>3, <2>1, PartsInOrder DEF IInv, q
    <3> QED BY <1>2, <1>3, <3>1
  <2>2. CASE <<n, shape[n]>> = f
    BY <1>2, <2>2
  <2> QED BY <1>2, <1>3, <2>1, <2>2
<1>5. f[1] = n /\ f[2] = q
  BY <1>2, <1>3
<1>6. pQueH264 \in Seq(Seq(Frag)) /\ f \in Frag /\ mFUBuffer \in Seq(Frag) /\ n \in Nat
  BY <1>1, <1>2, <1>3, TailNet DEF IInv, QueueInv, BufferInv, NetInv
<1> HIDE DEF f
<1>7. ASSUME NEW fr \in Seq(Frag), pQueH264' = Append(pQueH264, fr), fr = Parts(n)
      PROVE  \E i \in DOMAIN pQueH264' : pQueH264'[i] = Parts(n)
  <2>1. Len(pQueH264) + 1 \in DOMAIN pQueH264' /\ pQueH264'[Len(pQueH264) + 1] = fr
    BY <1>6, <1>7
  <2> QED BY <1>7, <2>1
<1>8. CASE shape[n] = 1
  <2>1. get_nal_type(f) = "SINGLE"
    BY <1>5, <1>8, TypeOf
  <2>2. pQueH264' = Append(pQueH264, <<f>>)
    BY <1>1, <2>1 DEF parse_payload, Single, Unsupported, Start, End, Middle
  <2>3. <<f>> = Parts(n)
    <3>1. f = <<n, 1>>
      BY <1>2, <1>3, <1>4, <1>8
    <3>2. Parts(n) = [p \in 1 .. 1 |-> <<n, p>>]
      BY <1>8 DEF Parts
    <3> QED BY <3>1, <3>2
  <2> QED BY <1>6, <1>7, <2>2, <2>3
<1>9. CASE shape[n] > 1
  <2>1. get_nal_type(f) = "FU_A" /\ ~IsStart(f) /\ IsEnd(f)
    <3>1. shape[n] # 0 /\ shape[n] # 1 /\ shape[n] \in Nat
      BY <1>2, <1>3, <1>9
    <3> QED BY <1>4, <1>5, <3>1, TypeOf DEF IsStart, IsEnd
  <2>2. pQueH264' = Append(pQueH264, Append(mFUBuffer, f))
    BY <1>1, <2>1 DEF parse_payload, Single, Unsupported, Start, End, Middle
  <2>3. mFUBuffer = [p \in 1 .. q - 1 |-> <<n, p>>]
    <3>1. \A p \in 1 .. q - 1 : <<n, p>> \in delivered
      BY <1>2, <1>3, <1>4
    <3>2. net[1][2] = q
      BY <1>2, <1>5
    <3> QED BY <1>1, <1>2, <1>3, <1>4, <1>6, <1>9, <3>1, <3>2 DEF BuiltInv, Nals
  <2>4. Append(mFUBuffer, f) = Parts(n)
    <3>1. q - 1 \in Nat /\ (q - 1) + 1 = q
      BY <1>2
    <3>2. Append([p \in 1 .. q - 1 |-> <<n, p>>], <<n, (q - 1) + 1>>) = [p \in 1 .. (q - 1) + 1 |-> <<n, p>>]
      BY <1>6, <3>1, PartsGrow
    <3> QED BY <1>2, <1>3, <1>4, <2>3, <3>1, <3>2 DEF Parts
  <2>5. Append(mFUBuffer, f) \in Seq(Frag)
    BY <1>6
  <2> QED BY <1>7, <2>2, <2>4, <2>5
<1> QED BY <1>2, <1>3, <1>8, <1>9

\* Delivery of a part of the NAL unit the buffer holds appends it.
LEMMA BuiltStep ==
  ASSUME IInv, RestInv, BuiltInv, Deliver
  PROVE  BuiltInv'
<1> DEFINE f == Head(net)
           n == Len(shape)
           q == f[2]
<1>1. /\ net # <<>> /\ shape' = shape /\ net' = Tail(net) /\ delivered' = delivered \cup {f}
      /\ parse_payload(f)
  BY DEF Deliver
<1>2. /\ n \in Nat \ {0} /\ shape[n] \in Nat /\ q \in Nat \ {0} /\ f = <<n, q>> /\ f = net[1]
      /\ shape[n] # 0 /\ net' # <<>> => q < shape[n] /\ net'[1][2] = q + 1
  BY <1>1, NextPart DEF IInv
<1> HIDE DEF n, q
<1> SUFFICES ASSUME net' # <<>>, shape[n] > 1, shape[n] < mFUBufferLen,
                    \A p \in 1 .. q : <<n, p>> \in delivered'
             PROVE  mFUBuffer' = [p \in 1 .. q |-> <<n, p>>]
  <2>1. shape'[Len(shape')] > 1 /\ net' # <<>> => net'[1][2] = q + 1 /\ (q + 1) - 1 = q
    BY <1>1, <1>2 DEF n
  <2> QED BY <1>1, <2>1 DEF BuiltInv, n
<1>3. f[1] = n /\ f[2] = q /\ q < shape[n]
  BY <1>2
<1>4. /\ f \in Frag /\ mFUBuffer \in Seq(Frag) /\ n \in Nat
      /\ mFUBufferLen \in Nat
      /\ mFUBufferOffset = Len(mFUBuffer)
           + (IF mFUBuffer # <<>> /\ IsStart(mFUBuffer[1]) THEN 1 ELSE 0)
  BY <1>1, <1>2, TailNet, DepacketizerAssumption DEF IInv, BufferInv
<1>5. get_nal_type(f) = "FU_A" /\ ~IsEnd(f)
  <2>1. shape[f[1]] # 0 /\ shape[f[1]] # 1
    BY <1>2, <1>3
  <2> QED BY <1>2, <1>3, <2>1, TypeOf DEF IsEnd
<1>6. CASE q = 1
  <2>1. IsStart(f)
    BY <1>3, <1>6 DEF IsStart
  <2>2. mFUBuffer' = <<f>>
    BY <1>1, <1>5, <2>1 DEF parse_payload, Single, Unsupported, Start, End, Middle
  <2>3. <<f>> = [p \in 1 .. 1 |-> <<n, p>>]
    BY <1>2, <1>6
  <2> QED BY <1>6, <2>2, <2>3
<1>7. CASE q > 1
  <2>1. ~IsStart(f)
    BY <1>2, <1>3, <1>7 DEF IsStart
  <2>2. \A p \in 1 .. q - 1 : <<n, p>> \in delivered
    <3> SUFFICES ASSUME NEW p \in 1 .. q - 1 PROVE <<n, p>> \in delivered
      OBVIOUS
    <3>1. p \in 1 .. q /\ p # q
      BY <1>2
    <3>2. <<n, p>> # f
      BY <1>2, <3>1
    <3> QED BY <1>1, <3>1, <3>2
  <2>3. mFUBuffer = [p \in 1 .. q - 1 |-> <<n, p>>]
    <3>1. net[1][2] = q
      BY <1>2, <1>3
    <3> QED BY <1>1, <1>2, <1>7, <2>2, <3>1 DEF BuiltInv, n
  <2>4. q - 1 \in Nat /\ q - 1 >= 1 /\ (q - 1) + 1 = q
    BY <1>2, <1>7
  <2>5. Len(mFUBuffer) = q - 1 /\ mFUBuffer # <<>> /\ mFUBuffer[1] = <<n, 1>>
    <3>1. DOMAIN mFUBuffer = 1 .. q - 1 /\ 1 \in 1 .. q - 1
      BY <2>3, <2>4
    <3>2. Len(mFUBuffer) = q - 1
      BY <1>4, <2>4, <3>1
    <3>3. mFUBuffer[1] = <<n, 1>>
      BY <2>3, <3>1
    <3> QED BY <2>4, <3>2, <3>3
  <2>6. mFUBufferOffset + 1 <= mFUBufferLen
    <3>1. mFUBufferOffset = q
      BY <1>4, <2>4, <2>5 DEF IsStart
    <3> QED BY <1>2, <1>3, <1>4, <3>1
  <2>7. mFUBuffer' = Append(mFUBuffer, f)
    <3>1. Middle(f)
      BY <1>1, <1>5, <2>1 DEF parse_payload, Single, Unsupported, Start, End
    <3>2. mFUBufferOffset \in Int
      BY <1>4, <2>4, <2>5
    <3>3. ~(mFUBufferOffset + 1 > mFUBufferLen)
      BY <1>4, <2>6, <3>2
    <3> QED BY <3>1, <3>3 DEF Middle
  <2>8. Append([p \in 1 .. q - 1 |-> <<n, p>>], <<n, (q - 1) + 1>>) = [p \in 1 .. (q - 1) + 1 |-> <<n, p>>]
    BY <1>4, <2>4, PartsGrow
  <2> QED BY <1>2, <2>3, <2>4, <2>7, <2>8
<1> QED BY <1>2, <1>6, <1>7

\* Delivery, of any payload, keeps what WholeNalsSurvive rests on.
LEMMA WholeDelivered ==
  ASSUME IInv, WInv, Deliver
  PROVE  WInv'
<1> DEFINE f == Head(net)
<1>1. /\ net # <<>> /\ shape' = shape /\ net' = Tail(net) /\ delivered' = delivered \cup {f}
      /\ parse_payload(f)
  BY DEF Deliver
<1>2. f \in Frag /\ mFUBuffer \in Seq(Frag) /\ pQueH264 \in Seq(Seq(Frag))
  BY <1>1, TailNet DEF IInv, BufferInv, QueueInv
<1> HIDE DEF f
<1>3. RestInv'
  BY <1>1, NextPart DEF IInv, WInv
<1>4. BuiltInv'
  BY BuiltStep DEF WInv
<1>5. \/ pQueH264' = pQueH264
      \/ \E fr \in Seq(Frag) : /\ pQueH264' = Append(pQueH264, fr)
                               /\ fr = mFUBuffer \/ \E k \in DOMAIN fr : fr[k] = f
  <2>1. <<f>> \in Seq(Frag) /\ \E k \in DOMAIN <<f>> : <<f>>[k] = f
    BY <1>2
  <2>2. /\ Append(mFUBuffer, f) \in Seq(Frag)
        /\ \E k \in DOMAIN Append(mFUBuffer, f) : Append(mFUBuffer, f)[k] = f
    <3>1. /\ Append(mFUBuffer, f) \in Seq(Frag)
          /\ Len(mFUBuffer) + 1 \in DOMAIN Append(mFUBuffer, f)
          /\ Append(mFUBuffer, f)[Len(mFUBuffer) + 1] = f
      BY <1>2
    <3> QED BY <3>1
  <2>3. \/ pQueH264' = pQueH264
        \/ pQueH264' = Append(pQueH264, <<f>>)
        \/ pQueH264' = Append(pQueH264, mFUBuffer)
        \/ pQueH264' = Append(pQueH264, Append(mFUBuffer, f))
    BY <1>1 DEF parse_payload, Single, Unsupported, parser, Start, End, Middle
  <2> QED BY <1>2, <2>1, <2>2, <2>3
<1>6. OpenInv'
  <2>1. \/ mFUBuffer' = mFUBuffer
        \/ mFUBuffer' = <<>>
        \/ mFUBuffer' = <<f>> /\ get_nal_type(f) = "FU_A" /\ IsStart(f)
        \/ mFUBuffer' = Append(mFUBuffer, f) /\ ~IsEnd(f)
    BY <1>1 DEF parse_payload, Single, Unsupported, parser, Start, End, Middle, Reset
  <2>2. ASSUME get_nal_type(f) = "FU_A", IsStart(f) PROVE f[2] # shape[f[1]]
    <3>1. shape[f[1]] # 1
      BY <2>2, TypeOf
    <3> QED BY <2>2, <3>1 DEF IsStart
  <2>3. CASE mFUBuffer' = mFUBuffer
    BY <1>1, <2>3 DEF WInv, OpenInv
  <2>4. CASE mFUBuffer' = <<>>
    BY <2>4 DEF OpenInv
  <2>5. CASE mFUBuffer' = <<f>> /\ get_nal_type(f) = "FU_A" /\ IsStart(f)
    <3>1. \A k \in DOMAIN <<f>> : <<f>>[k] = f
      OBVIOUS
    <3> QED BY <1>1, <2>2, <2>5, <3>1 DEF OpenInv
  <2>6. CASE mFUBuffer' = Append(mFUBuffer, f) /\ ~IsEnd(f)
    <3>1. \A k \in DOMAIN Append(mFUBuffer, f) :
            \/ Append(mFUBuffer, f)[k] = f
            \/ k \in DOMAIN mFUBuffer /\ Append(mFUBuffer, f)[k] = mFUBuffer[k]
      BY <1>2
    <3> QED BY <1>1, <2>6, <3>1 DEF WInv, OpenInv, IsEnd
  <2> QED BY <2>1, <2>3, <2>4, <2>5, <2>6
<1>7. Nals' = Nals /\ \A n \in Nals : Parts(n)' = Parts(n)
  BY <1>1 DEF Nals, Parts
<1>8. ASSUME NEW n \in Nals, Arrived(n)' PROVE \E i \in DOMAIN pQueH264' : pQueH264'[i] = Parts(n)
  <2>1. CASE Arrived(n)
    <3> PICK i \in DOMAIN pQueH264 : pQueH264[i] = Parts(n)
      BY <2>1 DEF WInv, WholeInv
    <3>1. CASE pQueH264' = pQueH264
      BY <3>1
    <3>2. ASSUME NEW fr \in Seq(Frag), pQueH264' = Append(pQueH264, fr)
          PROVE  i \in DOMAIN pQueH264' /\ pQueH264'[i] = pQueH264[i]
      BY <1>2, <3>2
    <3> QED BY <1>5, <3>1, <3>2
  <2>2. CASE ~Arrived(n)
    BY <1>8, <2>2, Completed DEF WInv
  <2> QED BY <2>1, <2>2
<1>9. \A i, j \in DOMAIN pQueH264' : \A n, m \in Nals :
        i < j /\ Arrived(n)' /\ Arrived(m)' /\ pQueH264'[i] = Parts(n) /\ pQueH264'[j] = Parts(m)
          => n < m
  <2>1. CASE pQueH264' = pQueH264
    <3>1. ASSUME NEW n \in Nals, NEW i \in DOMAIN pQueH264, Arrived(n)', pQueH264[i] = Parts(n)
          PROVE  Arrived(n)
      <4>1. DOMAIN pQueH264[i] = 1 .. shape[n] /\ \A p \in 1 .. shape[n] : pQueH264[i][p] = <<n, p>>
        BY <3>1 DEF Parts
      <4>2. \A p \in DOMAIN pQueH264[i] : pQueH264[i][p] \in delivered
        BY DEF IInv, QueueInv, Within
      <4>3. \A p \in 1 .. shape[n] : <<n, p>> \in delivered
        BY <4>1, <4>2
      <4> QED BY <1>1, <3>1, <4>3 DEF Arrived
    <3> QED BY <2>1, <3>1 DEF WInv, WholeInv
  <2>2. ASSUME NEW fr \in Seq(Frag), pQueH264' = Append(pQueH264, fr),
               fr = mFUBuffer \/ \E k \in DOMAIN fr : fr[k] = f
        PROVE  \A i, j \in DOMAIN pQueH264' : \A n, m \in Nals :
                 i < j /\ Arrived(n)' /\ Arrived(m)' /\ pQueH264'[i] = Parts(n) /\ pQueH264'[j] = Parts(m)
                   => n < m
    BY <2>2, FrameGained DEF WInv, f
  <2> QED BY <1>5, <2>1, <2>2
<1>10. WholeInv'
  BY <1>7, <1>8, <1>9 DEF WholeInv
<1> QED BY <1>3, <1>4, <1>6, <1>10 DEF WInv

LEMMA WholeLost ==
  ASSUME IInv, WInv, Lose
  PROVE  WInv'
<1> DEFINE f == Head(net)
<1>1. /\ net # <<>> /\ shape' = shape /\ net' = Tail(net) /\ delivered' = delivered
      /\ pQueH264' = pQueH264 /\ mFUBuffer' = mFUBuffer
  BY DEF Lose, parser
<1>2. RestInv'
  BY <1>1, NextPart DEF IInv, WInv
<1>3. BuiltInv'
  <2>1. /\ f[2] \in Nat \ {0} /\ f = <<Len(shape), f[2]>>
        /\ shape[Len(shape)] # 0 /\ net' # <<>> => net'[1][2] = f[2] + 1
    BY <1>1, NextPart DEF IInv, WInv
  <2>2. <<Len(shape), f[2]>> \notin delivered
    BY <1>1, <2>1, TailNet DEF IInv
  <2> HIDE DEF f
  <2> SUFFICES ASSUME net' # <<>>, shape'[Len(shape')] > 1,
                      \A p \in 1 .. net'[1][2] - 1 : <<Len(shape'), p>> \in delivered'
               PROVE  FALSE
    BY DEF BuiltInv
  <2>3. net'[1][2] = f[2] + 1
    BY <1>1, <2>1
  <2>4. f[2] \in 1 .. net'[1][2] - 1
    BY <2>1, <2>3
  <2> QED BY <1>1, <2>2, <2>4
<1> QED BY <1>1, <1>2, <1>3 DEF WInv, OpenInv, WholeInv, Nals, Arrived, Parts

LEMMA WholeSent ==
  ASSUME IInv, WInv, NEW s \in Shapes, SendNal(s)
  PROVE  WInv'
<1> PICK l \in Nat : l = Len(shape)
  BY DEF IInv, NetInv
<1>1. /\ s \in Nat /\ shape \in Seq(Nat) /\ shape' = Append(shape, s)
      /\ UNCHANGED <<mFUBuffer, pQueH264, delivered>>
      /\ net' = IF s = 0 THEN <<<<l + 1, 1>>>> ELSE [p \in 1 .. s |-> <<l + 1, p>>]
  BY DepacketizerAssumption DEF SendNal, IInv, NetInv, parser
<1>2. /\ l \in Nat /\ Len(shape') = l + 1 /\ shape'[l + 1] = s
      /\ Nals = 1 .. l /\ Nals' = 1 .. l + 1 /\ \A n \in Nals : shape'[n] = shape[n]
  BY <1>1 DEF Nals
<1>3. s # 0 => /\ DOMAIN net' = 1 .. s /\ Len(net') = s /\ \A i \in 1 .. s : net'[i] = <<l + 1, i>>
  <2> SUFFICES ASSUME s # 0
               PROVE  DOMAIN net' = 1 .. s /\ Len(net') = s /\ \A i \in 1 .. s : net'[i] = <<l + 1, i>>
    OBVIOUS
  <2>1. net' = [p \in 1 .. s |-> <<l + 1, p>>]
    BY <1>1
  <2>2. \A p \in 1 .. s : <<l + 1, p>> \in Frag
    BY <1>2 DEF Frag
  <2>3. Len([p \in 1 .. s |-> <<l + 1, p>>]) = s
    BY <1>1, <2>2, IsASeq
  <2> QED BY <2>1, <2>3
<1>4. RestInv'
  BY <1>1, <1>2, <1>3 DEF RestInv
<1>5. BuiltInv'
  <2>1. s > 1 => net'[1][2] = 1
    BY <1>1, <1>3
  <2> QED BY <1>1, <1>2, <2>1 DEF BuiltInv
<1>6. OpenInv'
  <2>1. \A k \in DOMAIN mFUBuffer : mFUBuffer[k][1] \in Nals
    <3>1. \A x \in Fragments : x[1] \in Nals
      BY DEF Fragments
    <3> QED BY <3>1 DEF IInv, BufferInv
  <2> QED BY <1>1, <1>2, <2>1 DEF WInv, OpenInv
<1>7. \A n \in Nals' : (n \in Nals /\ Parts(n)' = Parts(n) /\ (Arrived(n)' <=> Arrived(n))) \/ ~Arrived(n)'
  <2>1. ASSUME NEW n \in Nals PROVE Parts(n)' = Parts(n) /\ (Arrived(n)' <=> Arrived(n))
    BY <1>1, <1>2 DEF Parts, Arrived
  <2>2. ~Arrived(l + 1)'
    <3>1. <<l + 1, 1>> \notin delivered
      <4>1. \A d \in delivered : d[1] <= l
        BY DEF IInv, NetInv
      <4> QED BY <1>2, <4>1
    <3> SUFFICES ASSUME Arrived(l + 1)' PROVE FALSE
      OBVIOUS
    <3>2. s >= 1 /\ \A p \in 1 .. s : <<l + 1, p>> \in delivered
      BY <1>1, <1>2 DEF Arrived
    <3>3. 1 \in 1 .. s
      BY <1>1, <3>2
    <3> QED BY <3>1, <3>2, <3>3
  <2> SUFFICES ASSUME NEW n \in Nals'
               PROVE  \/ n \in Nals /\ Parts(n)' = Parts(n) /\ (Arrived(n)' <=> Arrived(n))
                      \/ ~Arrived(n)'
    OBVIOUS
  <2>3. CASE n \in Nals
    BY <2>1, <2>3
  <2>4. CASE n = l + 1
    BY <2>2, <2>4
  <2>5. n \in Nals \/ n = l + 1
    BY <1>2
  <2> QED BY <2>3, <2>4, <2>5
<1>8. WholeInv'
  BY <1>1, <1>7 DEF WInv, WholeInv
<1> QED BY <1>4, <1>5, <1>6, <1>8 DEF WInv

---------------------------------------------------------------------------
(* The theorem *)

LEMMA Inductive ==
  /\ Init => IInv
  /\ IInv /\ [Next]_vars => IInv'
<1>1. ASSUME Init PROVE IInv
  <2>1. NetInv
    BY <1>1, DepacketizerAssumption DEF Init, NetInv
  <2>2. BufferInv
    <3>1. mFUBuffer = <<>> /\ mFUBufferOffset = 0 /\ overrun = FALSE /\ mFUBufferLen \in Nat
      BY <1>1, DepacketizerAssumption DEF Init
    <3>2. Sorted(<<>>) /\ <<>> \in Seq(Frag) /\ Len(<<>>) = 0 /\ DOMAIN <<>> = {}
      BY DEF Sorted
    <3>3. 0 <= mFUBufferLen
      BY <3>1
    <3>4. 0 = 0 + (IF <<>> # <<>> /\ IsStart(<<>>[1]) THEN 1 ELSE 0)
      OBVIOUS
    <3>5. mFUBuffer \in Seq(Frag) /\ Sorted(mFUBuffer) /\ DOMAIN mFUBuffer = {}
      BY <3>1, <3>2
    <3>6. mFUBufferOffset = Len(mFUBuffer)
            + (IF mFUBuffer # <<>> /\ IsStart(mFUBuffer[1]) THEN 1 ELSE 0)
      BY <3>1, <3>2, <3>4
    <3> QED BY <3>1, <3>3, <3>5, <3>6 DEF BufferInv
  <2>3. QueueInv
    BY <1>1 DEF Init, QueueInv, Within, AllOnce, Apart
  <2> QED BY <2>1, <2>2, <2>3 DEF IInv
<1>2. ASSUME IInv, [Next]_vars PROVE IInv'
  <2>1. CASE Deliver
    BY <1>2, <2>1, DeliverStep
  <2>2. CASE Lose
    <3>1. /\ net # <<>> /\ net' = Tail(net) /\ shape' = shape /\ delivered' = delivered
          /\ losses < MaxLost /\ losses' = losses + 1 /\ UNCHANGED parser
      BY <2>2 DEF Lose
    <3>2. losses' \in 0 .. MaxLost
      BY <1>2, <3>1, DepacketizerAssumption DEF IInv, NetInv
    <3>3. NetInv'
      BY <1>2, <3>1, <3>2, TailStep DEF IInv
    <3>4. Fragments' = Fragments
      BY <3>1 DEF Fragments, Nals
    <3> QED BY <1>2, <3>1, <3>3, <3>4
            DEF IInv, BufferInv, QueueInv, parser, Sorted, Before, IsStart, Within, AllOnce, Apart
  <2>3. CASE \E s \in Shapes : SendNal(s)
    BY <1>2, <2>3, SendStep
  <2>4. CASE UNCHANGED vars
    <3>1. UNCHANGED <<shape, net, delivered, losses, mFUBuffer, mFUBufferOffset, pQueH264, overrun>>
      BY <2>4 DEF vars, parser, server
    <3>2. Fragments' = Fragments
      BY <3>1 DEF Fragments, Nals
    <3> QED BY <1>2, <3>1, <3>2
            DEF IInv, NetInv, BufferInv, QueueInv, Sorted, Before, IsStart, Within, AllOnce, Apart
  <2> QED BY <1>2, <2>1, <2>2, <2>3, <2>4 DEF Next
<1> QED BY <1>1, <1>2

\* parse_FU_A never mixes NAL units whose starts arrived, repeats a fragment or
\* loses count of its buffer, whatever the network loses and wherever.
THEOREM FramesStaySound == Spec => []FramesSound
<1>1. IInv => FramesSound
  <2> SUFFICES ASSUME IInv PROVE FramesSound
    OBVIOUS
  <2>1. TypeOK
    BY DEF IInv, NetInv, BufferInv, TypeOK
  <2>2. FramesOrdered
    BY DEF IInv, QueueInv, FramesOrdered, Sorted
  <2>3. PushedOnce
    BY DEF IInv, QueueInv, PushedOnce, AllOnce, Apart, Within
  <2> QED BY <2>1, <2>2, <2>3 DEF FramesSound
<1> QED BY <1>1, Inductive, PTL DEF Spec

\* A NAL unit that fits and arrives completely reaches the application as one
\* frame with nothing added, once and in the order of the NAL units, whatever
\* was lost of those around it: a start flushes what is left in mFUBuffer.
THEOREM WholeNalsArrive == Spec => []WholeNalsSurvive
<1>1. Init => IInv /\ WInv
  <2> SUFFICES ASSUME Init PROVE WInv
    BY Inductive
  <2> QED BY DEF Init, WInv, RestInv, OpenInv, BuiltInv, WholeInv, Nals
<1>2. (IInv /\ WInv) /\ [Next]_vars => (IInv /\ WInv)'
  <2> SUFFICES ASSUME IInv, WInv, [Next]_vars PROVE WInv'
    BY Inductive
  <2>1. CASE UNCHANGED vars
    BY <2>1 DEF vars, parser, server, WInv, RestInv, OpenInv, BuiltInv, WholeInv, Nals, Arrived, Parts
  <2> QED BY <2>1, WholeDelivered, WholeLost, WholeSent DEF Next
<1>3. IInv /\ WInv => WholeNalsSurvive
  BY DEF WInv, WholeInv, WholeNalsSurvive
<1> QED BY <1>1, <1>2, <1>3, PTL DEF Spec
=============================================================================
