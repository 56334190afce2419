---------------------------- MODULE BulkInProofs ----------------------------
(***************************************************************************)
(* Theorems about BulkIn: its types, that the driver and the controller agree  *)
(* which descriptor is next, and that what is reported sent was received, for   *)
(* every packet size, length of a transfer, number of lost handshakes and order *)
(* of events.                                                                *)
(***************************************************************************)
EXTENDS BulkIn, TLAPS

(* An endpoint whose descriptors have no more than a packet.                *)
GoodEp ==
  {e \in Endpoint : e.maxPacketSize \in {0, PacketSize} /\ \A i \in Bit : e.bd[i].len <= PacketSize}

(* A descriptor with a packet to send.                                      *)
Ready(d) == d.own /\ ~d.stall

(* e has the buffer, the turn, and but for those in I the descriptors of f.   *)
Keeps(e, f, I) ==
  /\ e.transferBuffer = f.transferBuffer /\ e.bdtOdd = f.bdtOdd
  /\ \A i \in Bit \ I : e.bd[i] = f.bd[i]
------------------------------------------------------------------------------
(* What the operators of Khci do.                                           *)

LEMMA Constants ==
  /\ WORD \in Nat \ {0} /\ PacketSize \in Nat \ {0} /\ 0 \in Nat
  /\ 1 .. MaxTransfers \subseteq Buffer /\ MaxTransfers \in Nat
  /\ Lengths \subseteq Nat /\ NULL \in Buffer
BY WordAssumption, BulkAssumption

LEMMA Flipping ==
  ASSUME NEW i \in Bit
  PROVE  Flip(i) \in Bit /\ Flip(i) # i /\ Flip(Flip(i)) = i /\ (i + 1) % 2 = Flip(i) /\ i % 2 = i
BY DEF Bit, Flip

LEMMA Words ==
  ASSUME NEW n \in Int
  PROVE  n % WORD \in Nat
BY Constants

LEMMA NewGood ==
  /\ NewEndpoint \in GoodEp /\ NewEndpoint.bdtOdd = 0 /\ ~NewEndpoint.transferring
  /\ \A i \in Bit : ~Ready(NewEndpoint.bd[i])
BY Constants DEF NewEndpoint, NoDescriptor, GoodEp, Endpoint, Descriptor, Bit, Ready

(* A good endpoint with one of its fields replaced.                         *)
LEMMA EpTransferring ==
  ASSUME NEW e \in GoodEp, NEW x \in BOOLEAN
  PROVE  [e EXCEPT !.transferring = x] \in GoodEp
BY DEF GoodEp, Endpoint

LEMMA EpBits ==
  ASSUME NEW e \in GoodEp, NEW k \in Bit
  PROVE  [e EXCEPT !.data0 = k] \in GoodEp /\ [e EXCEPT !.bdtOdd = k] \in GoodEp
<1>1. [e EXCEPT !.data0 = k] \in GoodEp
  BY DEF GoodEp, Endpoint
<1>2. [e EXCEPT !.bdtOdd = k] \in GoodEp
  BY DEF GoodEp, Endpoint
<1> QED BY <1>1, <1>2

LEMMA EpSize ==
  ASSUME NEW e \in GoodEp, NEW m \in {0, PacketSize}
  PROVE  [e EXCEPT !.maxPacketSize = m] \in GoodEp
<1>1. m \in Nat
  BY Constants
<1> QED BY <1>1 DEF GoodEp, Endpoint

LEMMA EpDescriptors ==
  ASSUME NEW e \in GoodEp, NEW b \in [Bit -> Descriptor], \A i \in Bit : b[i].len <= PacketSize
  PROVE  /\ [e EXCEPT !.bd = b] \in GoodEp
         /\ [e EXCEPT !.bd = b].bd = b
         /\ [e EXCEPT !.bd = b].bdtOdd = e.bdtOdd
         /\ [e EXCEPT !.bd = b].transferBuffer = e.transferBuffer
         /\ [e EXCEPT !.bd = b].transferring = e.transferring
BY DEF GoodEp, Endpoint

(* e with the descriptor d.                                                 *)
With(e, k, d) == [e EXCEPT !.bd[k] = d]

LEMMA EpDescriptor ==
  ASSUME NEW e \in GoodEp, NEW k \in Bit, NEW d \in Descriptor, d.len <= PacketSize
  PROVE  /\ With(e, k, d) \in GoodEp
         /\ With(e, k, d).bd[k] = d
         /\ With(e, k, d).transferring = e.transferring
         /\ Keeps(With(e, k, d), e, {k})
<1> DEFINE b == [e.bd EXCEPT ![k] = d]
<1>1. e.bd \in [Bit -> Descriptor] /\ \A i \in Bit : e.bd[i].len <= PacketSize
  BY DEF GoodEp, Endpoint
<1>2. b \in [Bit -> Descriptor] /\ b[k] = d /\ \A i \in Bit \ {k} : b[i] = e.bd[i]
  BY <1>1
<1>3. \A i \in Bit : b[i].len <= PacketSize
  BY <1>1, <1>2
<1>4. With(e, k, d) = [e EXCEPT !.bd = b]
  BY DEF With, GoodEp, Endpoint
<1> HIDE DEF b
<1> QED BY <1>2, <1>3, <1>4, EpDescriptors DEF Keeps

LEMMA NothingReady ==
  /\ NoDescriptor \in Descriptor /\ NoDescriptor.len <= PacketSize /\ ~Ready(NoDescriptor)
BY Constants DEF NoDescriptor, Descriptor, Bit, Ready

LEMMA EpEmpty ==
  ASSUME NEW e \in GoodEp
  PROVE  LET f == [e EXCEPT !.bd = [i \in Bit |-> NoDescriptor]]
         IN  /\ f \in GoodEp /\ f.bdtOdd = e.bdtOdd /\ f.transferring = e.transferring
             /\ f.transferBuffer = e.transferBuffer
             /\ \A i \in Bit : ~Ready(f.bd[i])
<1> DEFINE b == [i \in Bit |-> NoDescriptor]
<1>1. b \in [Bit -> Descriptor] /\ \A i \in Bit : b[i].len <= PacketSize /\ ~Ready(b[i])
  BY NothingReady
<1> HIDE DEF b
<1>2. /\ [e EXCEPT !.bd = b] \in GoodEp
      /\ [e EXCEPT !.bd = b].bd = b
      /\ [e EXCEPT !.bd = b].bdtOdd = e.bdtOdd
      /\ [e EXCEPT !.bd = b].transferBuffer = e.transferBuffer
      /\ [e EXCEPT !.bd = b].transferring = e.transferring
  BY <1>1, EpDescriptors
<1>3. \A i \in Bit : ~Ready([e EXCEPT !.bd = b].bd[i])
  BY <1>1, <1>2
<1> QED BY <1>2, <1>3 DEF b

LEMMA EndpointTransferGood ==
  ASSUME NEW e \in GoodEp, NEW off \in Nat, NEW n \in Nat, n <= PacketSize
  PROVE  /\ EndpointTransfer(e, off, n) \in GoodEp
         /\ EndpointTransfer(e, off, n).transferring
         /\ Keeps(EndpointTransfer(e, off, n), e, {e.bdtOdd})
<1> DEFINE d == [own |-> TRUE, stall |-> FALSE, data01 |-> e.data0, from |-> e.transferBuffer,
                 off |-> off, len |-> n]
           f == [e EXCEPT !.transferring = TRUE]
<1>1. d \in Descriptor /\ d.len <= PacketSize
  BY DEF Descriptor, GoodEp, Endpoint
<1>2. /\ f \in GoodEp /\ f.transferring /\ e.bdtOdd \in Bit
      /\ f.bd = e.bd /\ f.bdtOdd = e.bdtOdd /\ f.transferBuffer = e.transferBuffer
  BY DEF GoodEp, Endpoint
<1>3. EndpointTransfer(e, off, n) = With(f, e.bdtOdd, d)
  BY DEF With, EndpointTransfer, GoodEp, Endpoint
<1> HIDE DEF d, f
<1>4. /\ With(f, e.bdtOdd, d) \in GoodEp
      /\ With(f, e.bdtOdd, d).transferring = f.transferring
      /\ Keeps(With(f, e.bdtOdd, d), f, {e.bdtOdd})
  BY <1>1, <1>2, EpDescriptor
<1> QED BY <1>2, <1>3, <1>4 DEF Keeps

LEMMA CancelGood ==
  ASSUME NEW e \in GoodEp
  PROVE  Cancel(e) \in GoodEp /\ ~Cancel(e).transferring /\ Keeps(Cancel(e), e, {})
BY DEF Cancel, GoodEp, Endpoint, Keeps

LEMMA SaveTransferGood ==
  ASSUME NEW e \in GoodEp, NEW b \in Buffer, NEW n \in Nat
  PROVE  /\ SaveTransfer(e, b, n) \in GoodEp
         /\ SaveTransfer(e, b, n).transferring = e.transferring
         /\ SaveTransfer(e, b, n).bdtOdd = e.bdtOdd
         /\ SaveTransfer(e, b, n).bd = e.bd
         /\ SaveTransfer(e, b, n).transferBuffer = IF e.transferring THEN e.transferBuffer ELSE b
BY DEF SaveTransfer, GoodEp, Endpoint

LEMMA SetDefaultGood ==
  ASSUME NEW e \in GoodEp
  PROVE  /\ SetDefaultState(e) \in GoodEp /\ ~SetDefaultState(e).transferring
         /\ SetDefaultState(e).bdtOdd = 0
         /\ SetDefaultState(e).transferBuffer = e.transferBuffer
         /\ \A i \in Bit : ~Ready(SetDefaultState(e).bd[i])
<1> DEFINE f == [e EXCEPT !.transferring = FALSE]
           g == [f EXCEPT !.maxPacketSize = 0]
           h == [g EXCEPT !.data0 = 0]
           j == [h EXCEPT !.bdtOdd = 0]
<1>1. 0 \in Bit /\ 0 \in {0, PacketSize}
  BY DEF Bit
<1>2. f \in GoodEp
  BY EpTransferring
<1>3. g \in GoodEp
  BY <1>1, <1>2, EpSize
<1>4. h \in GoodEp
  BY <1>1, <1>3, EpBits
<1>5. j \in GoodEp
  BY <1>1, <1>4, EpBits
<1>6. ~j.transferring /\ j.bdtOdd = 0 /\ j.transferBuffer = e.transferBuffer
  BY DEF GoodEp, Endpoint
<1>7. SetDefaultState(e) = [j EXCEPT !.bd = [i \in Bit |-> NoDescriptor]]
  BY DEF SetDefaultState, GoodEp, Endpoint
<1> HIDE DEF j
<1> QED BY <1>5, <1>6, <1>7, EpEmpty

LEMMA InitGood ==
  ASSUME NEW e \in GoodEp
  PROVE  /\ EndpointInit(e, PacketSize) \in GoodEp /\ ~EndpointInit(e, PacketSize).transferring
         /\ Keeps(EndpointInit(e, PacketSize), e, {})
<1> DEFINE f == [e EXCEPT !.transferring = FALSE]
           g == [f EXCEPT !.maxPacketSize = PacketSize]
<1>1. f \in GoodEp /\ ~f.transferring /\ Keeps(f, e, {})
  BY EpTransferring DEF GoodEp, Endpoint, Keeps
<1>2. g \in GoodEp /\ ~g.transferring /\ Keeps(g, f, {})
  <2>1. g \in GoodEp
    <3>1. f \in GoodEp /\ PacketSize \in {0, PacketSize}
      BY <1>1
    <3> HIDE DEF f
    <3> QED BY <3>1, EpSize
  <2> QED BY <1>1, <2>1 DEF GoodEp, Endpoint, Keeps
<1>3. EndpointInit(e, PacketSize) = [g EXCEPT !.data0 = 0]
  BY DEF EndpointInit, GoodEp, Endpoint
<1> HIDE DEF f, g
<1>4. 0 \in Bit
  BY DEF Bit
<1>5. [g EXCEPT !.data0 = 0] \in GoodEp
  BY <1>2, <1>4, EpBits
<1>6. ~[g EXCEPT !.data0 = 0].transferring /\ Keeps([g EXCEPT !.data0 = 0], g, {})
  BY <1>2 DEF GoodEp, Endpoint, Keeps
<1> QED BY <1>1, <1>2, <1>3, <1>5, <1>6 DEF Keeps

LEMMA DeinitGood ==
  ASSUME NEW e \in GoodEp
  PROVE  /\ EndpointDeinit(e) \in GoodEp /\ ~EndpointDeinit(e).transferring
         /\ Keeps(EndpointDeinit(e), e, {})
BY DEF EndpointDeinit, Cancel, GoodEp, Endpoint, Keeps

LEMMA StallGood ==
  ASSUME NEW e \in GoodEp
  PROVE  /\ EndpointStall(e) \in GoodEp /\ ~EndpointStall(e).transferring
         /\ Keeps(EndpointStall(e), e, {e.bdtOdd})
         /\ ~Ready(EndpointStall(e).bd[e.bdtOdd])
<1> DEFINE d == [NoDescriptor EXCEPT !.own = TRUE, !.stall = TRUE]
<1>1. d \in Descriptor /\ d.len <= PacketSize /\ ~Ready(d)
  BY NothingReady DEF NoDescriptor, Descriptor, Bit, Ready
<1> HIDE DEF d
<1>2. EndpointStall(e) = With(Cancel(e), e.bdtOdd, d)
  BY DEF EndpointStall, With, d
<1>3. e.bdtOdd \in Bit
  BY DEF GoodEp, Endpoint
<1> QED BY <1>1, <1>2, <1>3, CancelGood, EpDescriptor DEF Keeps

LEMMA UnstallGood ==
  ASSUME NEW e \in GoodEp
  PROVE  /\ EndpointUnstall(e) \in GoodEp /\ ~EndpointUnstall(e).transferring
         /\ EndpointUnstall(e).bdtOdd = e.bdtOdd
         /\ EndpointUnstall(e).transferBuffer = e.transferBuffer
         /\ \A i \in Bit : ~Ready(EndpointUnstall(e).bd[i])
<1> DEFINE f == [Cancel(e) EXCEPT !.data0 = 0]
<1>1. /\ f \in GoodEp /\ ~f.transferring /\ f.bdtOdd = e.bdtOdd
      /\ f.transferBuffer = e.transferBuffer
  <2>1. 0 \in Bit
    BY DEF Bit
  <2>2. f \in GoodEp
    BY <2>1, CancelGood, EpBits
  <2> QED BY <2>2, CancelGood DEF GoodEp, Endpoint, Keeps
<1>2. EndpointUnstall(e) = [f EXCEPT !.bd = [i \in Bit |-> NoDescriptor]]
  BY CancelGood DEF EndpointUnstall, GoodEp, Endpoint
<1> HIDE DEF f
<1> QED BY <1>1, <1>2, EpEmpty

LEMMA CountedGood ==
  ASSUME NEW e \in GoodEp, NEW n \in Nat
  PROVE  /\ TokenCounted(e, n) \in GoodEp
         /\ TokenCounted(e, n).bdtOdd = Flip(e.bdtOdd)
         /\ TokenCounted(e, n).transferring = e.transferring
         /\ TokenCounted(e, n).transferBuffer = e.transferBuffer
         /\ TokenCounted(e, n).bd = e.bd
<1>1. (e.transferDone + n) % WORD \in Nat
  BY Words DEF GoodEp, Endpoint
<1>2. Flip(e.data0) \in Bit /\ Flip(e.bdtOdd) \in Bit
  BY Flipping DEF GoodEp, Endpoint
<1> QED BY <1>1, <1>2 DEF TokenCounted, GoodEp, Endpoint

LEMMA ContinuedGood ==
  ASSUME NEW e \in GoodEp, e.transferring
  PROVE  /\ Continued(e) \in GoodEp /\ Continued(e).transferring
         /\ Keeps(Continued(e), e, {e.bdtOdd})
<1> DEFINE n == Least(Remaining(e), e.maxPacketSize)
<1>1. Remaining(e) \in Nat
  BY Words DEF Remaining, GoodEp, Endpoint
<1>2. n \in Nat /\ n <= PacketSize
  BY <1>1, Constants DEF Least, GoodEp, Endpoint
<1> HIDE DEF n
<1>3. Continued(e) = EndpointTransfer(e, e.transferDone, n)
  BY DEF Continued, Transfer, SaveTransfer, n
<1>4. e.transferDone \in Nat
  BY DEF GoodEp, Endpoint
<1> QED BY <1>2, <1>3, <1>4, EndpointTransferGood
------------------------------------------------------------------------------
(* Types. TypeOK is not inductive: a continued transfer must not be given a     *)
(* longer packet than the descriptors hold, and a transfer that is reported     *)
(* must be one that was asked for.                                          *)

Bits == odd \in Bit /\ toggle \in Bit /\ tokens \in Seq(Bit) /\ Len(tokens) <= STAT_FIFO

Flags ==
  /\ ENDPT \in BOOLEAN /\ isBusy \in BOOLEAN /\ pipeStall \in BOOLEAN
  /\ forgotten \in BOOLEAN /\ unsynced \in BOOLEAN

Budgets == pc \in {"idle", "send"} /\ events \in 0 .. MaxEvents /\ lost \in 0 .. MaxLost

Transfers ==
  /\ length \in Seq(Lengths) /\ Len(length) <= MaxTransfers
  /\ got \in Seq(Packet) /\ completed \subseteq 1 .. Len(length)
  /\ pc = "send" \/ ep.transferring => ep.transferBuffer \in 1 .. Len(length)

TypeInv == ep \in GoodEp /\ Bits /\ Flags /\ Budgets /\ Transfers

LEMMA TypeInvParts ==
  TypeInv => TypeOK
<1> SUFFICES ASSUME TypeInv PROVE TypeOK
  OBVIOUS
<1>1. ep \in Endpoint /\ \A i \in Bit : ep.bd[i].len <= PacketSize
  BY DEF TypeInv, GoodEp
<1>2. /\ odd \in Bit /\ ENDPT \in BOOLEAN
      /\ tokens \in Seq(Bit) /\ Len(tokens) <= STAT_FIFO
      /\ isBusy \in BOOLEAN /\ pipeStall \in BOOLEAN /\ pc \in {"idle", "send"}
      /\ length \in Seq(Lengths) /\ Len(length) <= MaxTransfers
      /\ toggle \in Bit /\ got \in Seq(Packet)
      /\ completed \subseteq 1 .. Len(length)
      /\ forgotten \in BOOLEAN /\ unsynced \in BOOLEAN
      /\ events \in 0 .. MaxEvents /\ lost \in 0 .. MaxLost
  BY Zenon DEF TypeInv, Bits, Flags, Budgets, Transfers
<1> QED BY <1>1, <1>2, Zenon DEF TypeOK

LEMMA TypeInit ==
  Init => TypeInv
<1> SUFFICES ASSUME Init PROVE TypeInv
  OBVIOUS
<1> USE DEF Init
<1>1. ep \in GoodEp /\ ~ep.transferring
  BY NewGood
<1>2. Bits
  BY DEF Bits, Bit, STAT_FIFO
<1>3. Flags
  BY DEF Flags
<1>4. Budgets
  BY BulkAssumption DEF Budgets
<1>5. Transfers
  BY <1>1, Constants DEF Transfers
<1> QED BY <1>1, <1>2, <1>3, <1>4, <1>5 DEF TypeInv

LEMMA AcceptTypes ==
  ASSUME TypeInv, HostAccepts
  PROVE  toggle' \in Bit /\ got' \in Seq(Packet)
<1> DEFINE d == ep.bd[odd]
           p == [from |-> d.from, off |-> d.off, len |-> d.len]
<1>1. d \in Descriptor
  BY DEF TypeInv, GoodEp, Endpoint, Bits
<1>2. p \in Packet
  BY <1>1 DEF Descriptor, Packet
<1>3. Flip(toggle) \in Bit
  BY Flipping DEF TypeInv, Bits
<1>4. CASE d.data01 = toggle
  <2>1. got' = Append(got, p) /\ toggle' = Flip(toggle)
    BY <1>4 DEF HostAccepts
  <2>2. got \in Seq(Packet)
    BY DEF TypeInv, Transfers
  <2> HIDE DEF p
  <2> QED BY <1>2, <1>3, <2>1, <2>2
<1>5. CASE d.data01 # toggle
  BY <1>5 DEF HostAccepts, TypeInv, Bits, Transfers
<1> QED BY <1>4, <1>5

LEMMA TokenDoneTypes ==
  ASSUME TypeInv, TokenDone
  PROVE  /\ ep' \in GoodEp
         /\ ep'.transferring => ep.transferring
         /\ ep'.transferBuffer = ep.transferBuffer
         /\ tokens' \in Seq(Bit) /\ Len(tokens') <= Len(tokens)
         /\ isBusy' \in BOOLEAN
         /\ \/ UNCHANGED completed
            \/ ep.transferring /\ completed' = completed \cup {ep.transferBuffer}
<1> DEFINE len == ep.bd[Head(tokens)].len
           e   == TokenCounted(ep, len)
<1>1. tokens # << >> /\ tokens \in Seq(Bit) /\ ep \in GoodEp /\ isBusy \in BOOLEAN
  BY DEF TokenDone, TypeInv, Bits, Flags
<1>2. Head(tokens) \in Bit /\ tokens' \in Seq(Bit) /\ Len(tokens') <= Len(tokens)
  BY <1>1 DEF TokenDone
<1>3. len \in Nat
  BY <1>1, <1>2 DEF GoodEp, Endpoint, Descriptor
<1> HIDE DEF len
<1>4. e \in GoodEp /\ e.transferring = ep.transferring /\ e.transferBuffer = ep.transferBuffer
  BY <1>1, <1>3, CountedGood
<1>5. CASE ~ep.transferring
  BY <1>1, <1>2, <1>5 DEF TokenDone
<1>6. CASE ep.transferring /\ TransferComplete(e, len)
  <2>1. ep' = Cancel(e) /\ isBusy' = FALSE /\ completed' = completed \cup {ep.transferBuffer}
    BY <1>6 DEF TokenDone, len
  <2> HIDE DEF e
  <2> QED BY <1>2, <1>4, <1>6, <2>1, CancelGood DEF Keeps
<1>7. CASE ep.transferring /\ ~TransferComplete(e, len)
  <2>1. ep' = Continued(e) /\ isBusy' = isBusy /\ completed' = completed
    BY <1>7 DEF TokenDone, len
  <2> HIDE DEF e
  <2> QED BY <1>1, <1>2, <1>4, <1>7, <2>1, ContinuedGood DEF Keeps
<1> QED BY <1>5, <1>6, <1>7

LEMMA TypeNext ==
  ASSUME TypeInv, [Next]_vars
  PROVE  TypeInv'
<1>0. /\ ep \in GoodEp /\ odd \in Bit /\ toggle \in Bit /\ tokens \in Seq(Bit)
      /\ Len(tokens) <= STAT_FIFO
      /\ length \in Seq(Lengths) /\ Len(length) <= MaxTransfers
      /\ got \in Seq(Packet) /\ completed \subseteq 1 .. Len(length)
      /\ ep.bdtOdd \in Bit
  BY DEF TypeInv, Bits, Transfers, GoodEp, Endpoint
<1>1. CASE \E n \in Lengths : Claim(n)
  <2> PICK n \in Lengths : Claim(n)
    BY <1>1
  <2>1. /\ length' = Append(length, n) /\ length' \in Seq(Lengths)
        /\ Len(length') = Len(length) + 1 /\ Len(length') <= MaxTransfers
    BY <1>0, Constants DEF Claim
  <2>2. /\ ep' \in GoodEp /\ ep'.transferring = ep.transferring
        /\ ep'.transferBuffer = IF ep.transferring THEN ep.transferBuffer ELSE Len(length')
    <3> DEFINE b == Len(length')
    <3>1. b \in Buffer /\ n \in Nat
      BY <1>0, <2>1, Constants
    <3>2. ep' = SaveTransfer(ep, b, n) /\ ep \in GoodEp
      BY <1>0 DEF Claim
    <3> HIDE DEF b
    <3>3. /\ ep' \in GoodEp /\ ep'.transferring = ep.transferring
          /\ ep'.transferBuffer = IF ep.transferring THEN ep.transferBuffer ELSE b
      BY <3>1, <3>2, SaveTransferGood
    <3> QED BY <3>3 DEF b
  <2>3. Bits'
    BY <1>0 DEF Claim, Bits, controllerVars, hostVars
  <2>4. Flags'
    BY Zenon DEF Claim, TypeInv, Flags, controllerVars, historyVars
  <2>5. Budgets'
    BY DEF Claim, TypeInv, Budgets, budgetVars
  <2>6. Transfers'
    BY <1>0, <2>1, <2>2 DEF Claim, TypeInv, Transfers, hostVars
  <2> QED BY <2>2, <2>3, <2>4, <2>5, <2>6 DEF TypeInv
<1>2. CASE Prime
  <2>1. PICK max \in {PacketSize, ep.maxPacketSize} :
          ep' = EndpointTransfer(ep, ep.transferDone, Least(Last(length), max))
    BY <1>2 DEF Prime
  <2>2. /\ Least(Last(length), max) \in Nat /\ Least(Last(length), max) <= PacketSize
        /\ ep.transferDone \in Nat
    <3>1. max \in {0, PacketSize} /\ ep.transferDone \in Nat
      BY <1>0 DEF GoodEp, Endpoint
    <3>2. ep.transferBuffer \in 1 .. Len(length)
      BY <1>2 DEF Prime, TypeInv, Transfers
    <3>3. Len(length) \in 1 .. Len(length)
      BY <1>0, <3>2
    <3>4. Last(length) \in Lengths
      BY <1>0, <3>3 DEF Last
    <3>5. Last(length) \in Nat
      BY <3>4, Constants
    <3> HIDE DEF Last
    <3> QED BY <3>1, <3>5, Constants DEF Least
  <2>3. ep' \in GoodEp /\ ep'.transferBuffer = ep.transferBuffer
    <3> DEFINE n == Least(Last(length), max)
    <3>1. /\ n \in Nat /\ n <= PacketSize /\ ep' = EndpointTransfer(ep, ep.transferDone, n)
          /\ ep \in GoodEp /\ ep.transferDone \in Nat
      BY <1>0, <2>1, <2>2
    <3> HIDE DEF n
    <3> QED BY <3>1, EndpointTransferGood DEF Keeps
  <2>4. Bits'
    BY <1>0, <1>2 DEF Prime, Bits, controllerVars, hostVars
  <2>5. Flags'
    <3>1. forgotten' \in BOOLEAN
      BY <1>2, Zenon DEF Prime
    <3> QED BY <1>2, <3>1, Zenon DEF Prime, TypeInv, Flags, controllerVars
  <2>6. Budgets'
    BY <1>2 DEF Prime, TypeInv, Budgets, budgetVars
  <2>7. Transfers'
    BY <1>0, <1>2, <2>3 DEF Prime, TypeInv, Transfers, hostVars
  <2> QED BY <2>3, <2>4, <2>5, <2>6, <2>7 DEF TypeInv
<1>3. CASE InToken
  <2>1. /\ ep' \in GoodEp /\ ep'.transferring = ep.transferring
        /\ ep'.transferBuffer = ep.transferBuffer
    <3> DEFINE d == [ep.bd[odd] EXCEPT !.own = FALSE]
    <3>1. ep.bd[odd] \in Descriptor /\ ep.bd[odd].len <= PacketSize
      BY <1>0 DEF GoodEp, Endpoint
    <3>2. d \in Descriptor /\ d.len <= PacketSize
      BY <3>1 DEF Descriptor
    <3>3. ep' = With(ep, odd, d)
      BY <1>0, <1>3 DEF InToken, With, GoodEp, Endpoint
    <3> HIDE DEF d
    <3> QED BY <1>0, <3>2, <3>3, EpDescriptor DEF Keeps
  <2>2. toggle' \in Bit /\ got' \in Seq(Packet)
    BY <1>3, AcceptTypes DEF InToken
  <2>3. Bits'
    BY <1>0, <1>3, <2>2, Flipping DEF InToken, Offered, Bits, STAT_FIFO
  <2>4. Flags'
    BY <1>3, Zenon DEF InToken, TypeInv, Flags, historyVars
  <2>5. Budgets'
    BY <1>3 DEF InToken, TypeInv, Budgets, budgetVars
  <2>6. Transfers'
    BY <1>0, <1>3, <2>1, <2>2 DEF InToken, TypeInv, Transfers
  <2> QED BY <2>1, <2>3, <2>4, <2>5, <2>6 DEF TypeInv
<1>4. CASE InTokenUnacknowledged
  <2>1. toggle' \in Bit /\ got' \in Seq(Packet)
    BY <1>4, AcceptTypes DEF InTokenUnacknowledged
  <2>2. Bits'
    BY <1>0, <1>4, <2>1 DEF InTokenUnacknowledged, Bits, controllerVars
  <2>3. Flags'
    BY <1>4, Zenon DEF InTokenUnacknowledged, TypeInv, Flags, controllerVars, historyVars
  <2>4. Budgets'
    BY <1>4, BulkAssumption DEF InTokenUnacknowledged, TypeInv, Budgets
  <2>5. Transfers'
    BY <1>0, <1>4, <2>1 DEF InTokenUnacknowledged, TypeInv, Transfers
  <2>6. ep' \in GoodEp
    BY <1>0, <1>4 DEF InTokenUnacknowledged
  <2> QED BY <2>2, <2>3, <2>4, <2>5, <2>6 DEF TypeInv
<1>5. CASE TokenDone
  <2>1. /\ ep' \in GoodEp
        /\ ep'.transferring => ep.transferring
        /\ ep'.transferBuffer = ep.transferBuffer
        /\ tokens' \in Seq(Bit) /\ Len(tokens') <= Len(tokens)
        /\ isBusy' \in BOOLEAN
        /\ \/ UNCHANGED completed
           \/ ep.transferring /\ completed' = completed \cup {ep.transferBuffer}
    BY <1>5, TokenDoneTypes
  <2>2. Bits'
    BY <1>0, <1>5, <2>1 DEF TokenDone, Bits, hostVars, STAT_FIFO
  <2>3. Flags'
    BY <1>5, <2>1, Zenon DEF TokenDone, TypeInv, Flags, historyVars
  <2>4. Budgets'
    BY <1>5 DEF TokenDone, TypeInv, Budgets, budgetVars
  <2>5. Transfers'
    <3>1. UNCHANGED <<pc, length, got>>
      BY <1>5 DEF TokenDone, hostVars
    <3>2. completed' \subseteq 1 .. Len(length)
      BY <1>0, <2>1 DEF TypeInv, Transfers
    <3> QED BY <1>0, <2>1, <3>1, <3>2 DEF TypeInv, Transfers
  <2> QED BY <2>1, <2>2, <2>3, <2>4, <2>5 DEF TypeInv
<1>6. CASE Host
  <2>1. /\ ep' \in GoodEp
        /\ ep'.transferring => ep.transferring
        /\ ep'.transferBuffer = ep.transferBuffer
    <3>1. CASE BusReset
      BY <1>0, <3>1, SetDefaultGood DEF BusReset
    <3>2. CASE Unconfigure
      BY <1>0, <3>2, DeinitGood DEF Unconfigure, Keeps
    <3>3. CASE Configure
      BY <1>0, <3>3, InitGood DEF Configure, Keeps
    <3>4. CASE Reconfigure
      BY <1>0, <3>4 DEF Reconfigure
    <3>5. CASE SetHalt
      BY <1>0, <3>5, StallGood DEF SetHalt, Keeps
    <3>6. CASE ClearHalt
      BY <1>0, <3>6, UnstallGood DEF ClearHalt
    <3> QED BY <1>6, <3>1, <3>2, <3>3, <3>4, <3>5, <3>6 DEF Host
  <2>2. /\ odd' \in Bit /\ toggle' \in Bit /\ tokens' \in Seq(Bit) /\ Len(tokens') <= STAT_FIFO
    <3>1. /\ odd' = odd \/ odd' = 0
          /\ toggle' = toggle \/ toggle' = 0
          /\ tokens' = tokens \/ tokens' = << >>
      BY <1>6 DEF Host, BusReset, Unconfigure, Configure, Reconfigure, SetHalt, ClearHalt,
         controllerVars, hostVars
    <3>2. 0 \in Bit /\ << >> \in Seq(Bit) /\ Len(<< >>) <= STAT_FIFO
      BY DEF Bit, STAT_FIFO
    <3> QED BY <1>0, <3>1, <3>2
  <2>3. Flags'
    <3>1. ENDPT \in BOOLEAN /\ isBusy \in BOOLEAN /\ pipeStall \in BOOLEAN
          /\ forgotten \in BOOLEAN /\ unsynced \in BOOLEAN
      BY Zenon DEF TypeInv, Flags
    <3>2. CASE BusReset
      BY <3>1, <3>2, Zenon DEF BusReset, Flags
    <3>3. CASE Unconfigure
      BY <3>1, <3>3, Zenon DEF Unconfigure, Flags
    <3>4. CASE Configure
      BY <3>1, <3>4, Zenon DEF Configure, Flags
    <3>5. CASE Reconfigure
      BY <3>1, <3>5, Zenon DEF Reconfigure, controllerVars, Flags
    <3>6. CASE SetHalt
      BY <3>1, <3>6, Zenon DEF SetHalt, controllerVars, historyVars, Flags
    <3>7. CASE ClearHalt
      BY <3>1, <3>7, Zenon DEF ClearHalt, controllerVars, historyVars, Flags
    <3> QED BY <1>6, <3>2, <3>3, <3>4, <3>5, <3>6, <3>7 DEF Host
  <2>4. Budgets'
    <3>1. pc' = pc /\ lost' = lost /\ events < MaxEvents /\ events' = events + 1
      BY <1>6 DEF Host, Event, BusReset, Unconfigure, Configure, Reconfigure, SetHalt, ClearHalt
    <3> QED BY <3>1, BulkAssumption DEF TypeInv, Budgets
  <2>5. Transfers'
    <3>1. /\ pc' = pc /\ length' = length
          /\ got' = got \/ got' = << >>
          /\ completed' = completed \/ completed' = {}
      BY <1>6 DEF Host, BusReset, Unconfigure, Configure, Reconfigure, SetHalt, ClearHalt, hostVars
    <3>2. << >> \in Seq(Packet)
      OBVIOUS
    <3>3. got' \in Seq(Packet) /\ completed' \subseteq 1 .. Len(length)
      BY <1>0, <3>1, <3>2
    <3>4. pc = "send" \/ ep'.transferring => ep'.transferBuffer \in 1 .. Len(length)
      BY <2>1 DEF TypeInv, Transfers
    <3> QED BY <1>0, <3>1, <3>3, <3>4 DEF Transfers
  <2> QED BY <2>1, <2>2, <2>3, <2>4, <2>5 DEF TypeInv, Bits
<1>7. CASE UNCHANGED vars
  <2>1. UNCHANGED <<ep, odd, ENDPT, tokens, isBusy, pipeStall, pc, length, toggle, got, completed,
                    forgotten, unsynced, events, lost>>
    BY <1>7 DEF vars, controllerVars, hostVars, historyVars, budgetVars
  <2> QED BY <2>1, Zenon DEF TypeInv, Bits, Flags, Budgets, Transfers
<1> QED BY <1>1, <1>2, <1>3, <1>4, <1>5, <1>6, <1>7 DEF Next, Main

(* Every variable keeps its type: no descriptor has more than a packet, the     *)
(* controller's queue of tokens does not overflow, and only transfers that were  *)
(* asked for are reported sent.                                             *)
THEOREM TypeCorrect == Spec => []TypeOK
<1>1. Spec => []TypeInv
  BY TypeInit, TypeNext, PTL DEF Spec
<1> QED BY <1>1, TypeInvParts, PTL
------------------------------------------------------------------------------
(* Steps. While nothing is forgotten the driver has at most one descriptor with  *)
(* the controller, the next one, and it belongs to a transfer; when the         *)
(* controller has given it back, one token is pending and nothing else is primed; *)
(* and main primes only an endpoint that has no transfer.                   *)

Steps ==
  /\ tokens = << >> => ep.bdtOdd = odd
  /\ tokens # << >> => /\ Len(tokens) = 1 /\ ep.transferring /\ ep.bdtOdd = Flip(odd)
                       /\ \A i \in Bit : ~Ready(ep.bd[i])
  /\ \A i \in Bit : Ready(ep.bd[i]) => i = ep.bdtOdd /\ ep.transferring
  /\ pc = "send" /\ isBusy => ~ep.transferring /\ tokens = << >>
  /\ ~isBusy => ~ep.transferring

StepInv == TypeInv /\ (~forgotten => Steps)

(* A descriptor is ready on a primed endpoint, and on no other.              *)
LEMMA PrimedReady ==
  ASSUME NEW e
  PROVE  Primed(e) <=> \E i \in Bit : Ready(e.bd[i])
BY DEF Primed, Ready

LEMMA StepInit ==
  Init => StepInv
<1>1. Init => ~forgotten /\ Steps
  BY NewGood DEF Init, Steps
<1> QED BY <1>1, TypeInit DEF StepInv

LEMMA StepInvInStep ==
  StepInv => InStep
<1> SUFFICES ASSUME StepInv, ~forgotten
             PROVE  ep.bdtOdd = (odd + Len(tokens)) % 2
  BY DEF InStep
<1>1. odd \in Bit /\ tokens \in Seq(Bit) /\ Steps
  BY DEF StepInv, TypeInv, Bits
<1>2. CASE tokens = << >>
  <2>1. Len(tokens) = 0 /\ ep.bdtOdd = odd
    BY <1>1, <1>2 DEF Steps
  <2>2. odd + 0 = odd /\ odd % 2 = odd
    BY <1>1, Flipping DEF Bit
  <2> QED BY <2>1, <2>2
<1>3. CASE tokens # << >>
  BY <1>1, <1>3, Flipping DEF Steps
<1> QED BY <1>2, <1>3

LEMMA StepToken ==
  ASSUME StepInv, ~forgotten, TokenDone
  PROVE  Steps'
<1> DEFINE len == ep.bd[Head(tokens)].len
           e   == TokenCounted(ep, len)
<1>1. /\ ep \in GoodEp /\ odd \in Bit /\ tokens \in Seq(Bit) /\ tokens # << >> /\ Steps
      /\ isBusy \in BOOLEAN
  BY DEF TokenDone, StepInv, TypeInv, Bits, Flags
<1>2. /\ Len(tokens) = 1 /\ ep.transferring /\ ep.bdtOdd = Flip(odd) /\ isBusy /\ pc # "send"
      /\ \A i \in Bit : ~Ready(ep.bd[i])
  BY <1>1 DEF Steps
<1>3. tokens' = << >> /\ odd' = odd /\ pc' = pc
  BY <1>1, <1>2 DEF TokenDone
<1>4. len \in Nat
  <2>1. Head(tokens) \in Bit
    BY <1>1
  <2> QED BY <1>1, <2>1 DEF GoodEp, Endpoint, Descriptor
<1> HIDE DEF len
<1>5. /\ e \in GoodEp /\ e.transferring /\ e.bdtOdd = odd
      /\ \A i \in Bit : ~Ready(e.bd[i])
  <2>1. /\ e \in GoodEp /\ e.transferring = ep.transferring
        /\ e.bdtOdd = Flip(ep.bdtOdd) /\ e.bd = ep.bd
    BY <1>1, <1>4, CountedGood
  <2> HIDE DEF e
  <2>2. Flip(ep.bdtOdd) = odd
    BY <1>1, <1>2, Flipping
  <2> QED BY <1>2, <2>1, <2>2
<1>6. CASE TransferComplete(e, len)
  <2>1. ep' = Cancel(e) /\ isBusy' = FALSE
    BY <1>2, <1>6 DEF TokenDone, len
  <2> HIDE DEF e
  <2>2. ~ep'.transferring /\ ep'.bdtOdd = odd /\ \A i \in Bit : ~Ready(ep'.bd[i])
    BY <1>5, <2>1, CancelGood DEF Keeps
  <2> QED BY <1>3, <2>1, <2>2 DEF Steps
<1>7. CASE ~TransferComplete(e, len)
  <2>1. ep' = Continued(e) /\ isBusy' = isBusy
    BY <1>2, <1>7 DEF TokenDone, len
  <2> HIDE DEF e
  <2>2. /\ ep'.transferring /\ ep'.bdtOdd = odd
        /\ \A i \in Bit : Ready(ep'.bd[i]) => i = odd
    BY <1>5, <2>1, ContinuedGood DEF Keeps
  <2> QED BY <1>2, <1>3, <2>1, <2>2 DEF Steps
<1> QED BY <1>6, <1>7

LEMMA StepNext ==
  ASSUME StepInv, [Next]_vars
  PROVE  ~forgotten' => Steps'
<1> SUFFICES ASSUME ~forgotten'
             PROVE  Steps'
  OBVIOUS
<1>0. ep \in GoodEp /\ odd \in Bit /\ ep.bdtOdd \in Bit /\ tokens \in Seq(Bit)
  BY DEF StepInv, TypeInv, Bits, GoodEp, Endpoint
<1>1. CASE \E n \in Lengths : Claim(n)
  <2> PICK n \in Lengths : Claim(n)
    BY <1>1
  <2>1. ~forgotten /\ ~isBusy /\ UNCHANGED <<odd, tokens>>
    BY DEF Claim, historyVars, controllerVars
  <2>2. Steps
    BY <2>1 DEF StepInv
  <2>3. ep'.transferring = ep.transferring /\ ep'.bdtOdd = ep.bdtOdd /\ ep'.bd = ep.bd
    <3> DEFINE b == Len(length')
    <3>1. ep' = SaveTransfer(ep, b, n)
      BY DEF Claim
    <3> QED BY <1>0, <3>1 DEF SaveTransfer, GoodEp, Endpoint
  <2> QED BY <2>1, <2>2, <2>3 DEF Steps
<1>2. CASE Prime
  <2>1. isBusy /\ ~forgotten /\ pc = "send" /\ pc' = "idle" /\ UNCHANGED <<odd, tokens, isBusy>>
    BY <1>2 DEF Prime, controllerVars
  <2>2. ~ep.transferring /\ tokens = << >> /\ ep.bdtOdd = odd /\ \A i \in Bit : ~Ready(ep.bd[i])
    BY <2>1 DEF StepInv, Steps
  <2>3. /\ ep'.transferring /\ ep'.bdtOdd = ep.bdtOdd
        /\ \A i \in Bit : i # ep.bdtOdd => ep'.bd[i] = ep.bd[i]
    <3>1. PICK n : ep' = EndpointTransfer(ep, ep.transferDone, n)
      BY <1>2 DEF Prime
    <3> QED BY <1>0, <3>1 DEF EndpointTransfer, GoodEp, Endpoint
  <2> QED BY <2>1, <2>2, <2>3 DEF Steps
<1>3. CASE InToken
  <2>1. /\ ~forgotten /\ Ready(ep.bd[odd]) /\ UNCHANGED <<pc, isBusy>>
        /\ tokens' = Append(tokens, odd) /\ odd' = Flip(odd)
        /\ ep' = [ep EXCEPT !.bd[odd].own = FALSE]
    BY <1>3 DEF InToken, Offered, historyVars, Ready
  <2>2. Steps
    BY <2>1 DEF StepInv
  <2>3. ep.transferring /\ ep.bdtOdd = odd /\ tokens = << >>
        /\ \A i \in Bit : i # odd => ~Ready(ep.bd[i])
    BY <1>0, <2>1, <2>2 DEF Steps
  <2>4. ep'.transferring /\ ep'.bdtOdd = odd /\ \A i \in Bit : ~Ready(ep'.bd[i])
    <3>1. ep'.bd[odd].own = FALSE /\ \A i \in Bit : i # odd => ep'.bd[i] = ep.bd[i]
      BY <1>0, <2>1 DEF GoodEp, Endpoint, Descriptor
    <3>2. ep'.transferring = ep.transferring /\ ep'.bdtOdd = ep.bdtOdd
      BY <1>0, <2>1 DEF GoodEp, Endpoint
    <3> QED BY <2>3, <3>1, <3>2 DEF Ready
  <2>5. Len(tokens') = 1 /\ tokens' # << >> /\ Flip(odd') = odd
    BY <1>0, <2>1, <2>3, Flipping
  <2>6. isBusy' /\ ~(pc' = "send" /\ isBusy')
    BY <2>1, <2>2, <2>3 DEF Steps
  <2> QED BY <2>4, <2>5, <2>6 DEF Steps
<1>4. CASE InTokenUnacknowledged
  <2>1. UNCHANGED <<ep, odd, tokens, pc, isBusy>> /\ ~forgotten
    BY <1>4 DEF InTokenUnacknowledged, controllerVars, historyVars
  <2> QED BY <2>1 DEF StepInv, Steps
<1>5. CASE TokenDone
  <2>1. ~forgotten
    BY <1>5 DEF TokenDone, historyVars
  <2> QED BY <1>5, <2>1, StepToken
<1>6. CASE BusReset
  <2>1. odd' = 0 /\ tokens' = << >> /\ ~isBusy' /\ ep' = SetDefaultState(ep)
    BY <1>6 DEF BusReset
  <2> QED BY <1>0, <2>1, SetDefaultGood DEF Steps
<1>7. CASE Unconfigure \/ Configure
  <2>1. /\ ~forgotten /\ ~Primed(ep) /\ tokens = << >> /\ ~isBusy'
        /\ UNCHANGED <<odd, tokens>>
    BY <1>7 DEF Unconfigure, Configure
  <2>2. ~ep'.transferring /\ Keeps(ep', ep, {})
    BY <1>0, <1>7, DeinitGood, InitGood DEF Unconfigure, Configure
  <2>3. \A i \in Bit : ~Ready(ep'.bd[i])
    BY <2>1, <2>2, PrimedReady DEF Keeps
  <2>4. ep'.bdtOdd = odd
    BY <2>1, <2>2 DEF StepInv, Steps, Keeps
  <2> QED BY <2>1, <2>2, <2>3, <2>4 DEF Steps
<1>8. CASE Reconfigure
  <2>1. UNCHANGED <<ep, odd, tokens, pc, isBusy>> /\ ~forgotten
    BY <1>8 DEF Reconfigure, controllerVars
  <2> QED BY <2>1 DEF StepInv, Steps
<1>9. CASE SetHalt \/ ClearHalt
  <2>1. /\ ~forgotten /\ tokens = << >> /\ UNCHANGED <<odd, tokens>>
        /\ isBusy' = IF ep.transferring THEN FALSE ELSE isBusy
    <3>1. CASE SetHalt
      BY <3>1, Zenon DEF SetHalt, historyVars, controllerVars
    <3>2. CASE ClearHalt
      BY <3>2, Zenon DEF ClearHalt, historyVars, controllerVars
    <3> QED BY <1>9, <3>1, <3>2
  <2>2. Steps
    BY <2>1 DEF StepInv
  <2>3. ~ep'.transferring /\ ep'.bdtOdd = ep.bdtOdd /\ \A i \in Bit : ~Ready(ep'.bd[i])
    <3>1. CASE SetHalt
      BY <1>0, <2>2, <3>1, StallGood DEF SetHalt, Steps, Keeps
    <3>2. CASE ClearHalt
      BY <1>0, <3>2, UnstallGood DEF ClearHalt
    <3> QED BY <1>9, <3>1, <3>2
  <2> QED BY <2>1, <2>2, <2>3 DEF Steps
<1>10. CASE UNCHANGED vars
  <2>1. UNCHANGED <<ep, odd, tokens, pc, isBusy, forgotten>>
    BY <1>10 DEF vars, controllerVars, historyVars
  <2> QED BY <2>1 DEF StepInv, Steps
<1> QED BY <1>1, <1>2, <1>3, <1>4, <1>5, <1>6, <1>7, <1>8, <1>9, <1>10 DEF Next, Main, Host

(* The driver and the controller agree which descriptor is next, as long as no   *)
(* descriptor has been forgotten, whatever handshakes are lost and in whatever    *)
(* order the host resets, configures, halts and un-halts the pipe.           *)
THEOREM StaysInStep == Spec => []InStep
<1>1. StepInv /\ [Next]_vars => StepInv'
  BY TypeNext, StepNext DEF StepInv
<1>2. Spec => []StepInv
  BY <1>1, StepInit, PTL DEF Spec
<1> QED BY <1>2, StepInvInStep, PTL
------------------------------------------------------------------------------
(* What the host has of a transfer.                                          *)

N == Len(length)

(* Consecutive and Received, of any packets g and length n of the transfer.    *)
Run(g, n, k, first, last) ==
  /\ \A i \in DOMAIN g : g[i].from = k <=> i \in first .. last
  /\ g[first].off = 0
  /\ \A i \in first .. last : g[i].len = Least(n - g[i].off, PacketSize)
  /\ \A i \in first + 1 .. last :
       g[i].off = g[i - 1].off + g[i - 1].len /\ g[i].off < n

Holds(g, n, k) ==
  \E first, last \in DOMAIN g :
    first <= last /\ Run(g, n, k, first, last) /\ g[last].off + g[last].len = n

NoneOf(g, k) == \A i \in DOMAIN g : g[i].from # k

(* The last packets of g are those of transfer k, up to off.                 *)
Until(g, n, k, off) ==
  \E first \in DOMAIN g :
    Run(g, n, k, first, Len(g)) /\ g[Len(g)].off + g[Len(g)].len = off

(* What it has when the packet at off is due.                               *)
Due(g, n, k, off) == IF off = 0 THEN NoneOf(g, k) ELSE Until(g, n, k, off) /\ off < n

LEMMA ReceivedHolds ==
  ASSUME NEW k
  PROVE  Received(k) <=> Holds(got, length[k], k)
BY DEF Received, Consecutive, Holds, Run

LEMMA UntilHolds ==
  ASSUME NEW g \in Seq(Packet), NEW n \in Nat, NEW k \in Nat, Until(g, n, k, n)
  PROVE  Holds(g, n, k)
<1>1. PICK first \in DOMAIN g : Run(g, n, k, first, Len(g)) /\ g[Len(g)].off + g[Len(g)].len = n
  BY DEF Until
<1>2. Len(g) \in DOMAIN g /\ first <= Len(g)
  OBVIOUS
<1> QED BY <1>1, <1>2 DEF Holds

(* The packet that is due joins those of its transfer.                       *)
LEMMA DueJoins ==
  ASSUME NEW g \in Seq(Packet), NEW n \in Nat, NEW k \in Nat, NEW off \in Nat, NEW p \in Packet,
         off <= n, p.from = k, p.off = off, p.len = Least(n - off, PacketSize), Due(g, n, k, off)
  PROVE  Until(Append(g, p), n, k, off + p.len)
<1> DEFINE h == Append(g, p)
<1>1. /\ h \in Seq(Packet) /\ Len(h) = Len(g) + 1 /\ h[Len(h)] = p /\ Len(g) \in Nat
      /\ DOMAIN h = 1 .. Len(g) + 1 /\ DOMAIN g = 1 .. Len(g)
      /\ \A i \in 1 .. Len(g) : h[i] = g[i]
  OBVIOUS
<1> HIDE DEF h
<1>2. CASE off = 0
  <2>1. \A i \in 1 .. Len(g) : g[i].from # k
    BY <1>1, <1>2 DEF Due, NoneOf
  <2>2. \A i \in 1 .. Len(g) + 1 : h[i].from = k <=> i \in Len(h) .. Len(h)
    BY <1>1, <2>1
  <2>3. Run(h, n, k, Len(h), Len(h))
    <3>1. \A i \in Len(h) .. Len(h) : h[i] = p
      BY <1>1
    <3>2. Len(h) + 1 .. Len(h) = {}
      BY <1>1
    <3> QED BY <1>1, <1>2, <2>2, <3>1, <3>2 DEF Run
  <2> QED BY <1>1, <2>3 DEF Until, h
<1>3. CASE off # 0
  <2>1. PICK first \in DOMAIN g :
          Run(g, n, k, first, Len(g)) /\ g[Len(g)].off + g[Len(g)].len = off
    BY <1>3 DEF Due, Until
  <2>2. off < n /\ first \in 1 .. Len(g) /\ first \in DOMAIN h
    BY <1>1, <1>3, <2>1 DEF Due
  <2>3. \A i \in DOMAIN h : h[i].from = k <=> i \in first .. Len(h)
    BY <1>1, <2>1, <2>2 DEF Run
  <2>4. h[first].off = 0
    BY <1>1, <2>1, <2>2 DEF Run
  <2>5. ASSUME NEW i \in first .. Len(h)
        PROVE  h[i].len = Least(n - h[i].off, PacketSize)
    <3>1. CASE i = Len(h)
      BY <1>1, <3>1
    <3>2. CASE i # Len(h)
      <4>1. i \in first .. Len(g) /\ h[i] = g[i]
        BY <1>1, <2>2, <3>2
      <4> QED BY <2>1, <4>1 DEF Run
    <3> QED BY <3>1, <3>2
  <2>6. ASSUME NEW i \in first + 1 .. Len(h)
        PROVE  h[i].off = h[i - 1].off + h[i - 1].len /\ h[i].off < n
    <3>1. CASE i = Len(h)
      <4>1. i - 1 = Len(g) /\ Len(g) \in 1 .. Len(g) /\ h[i - 1] = g[Len(g)] /\ h[i] = p
        BY <1>1, <2>2, <3>1
      <4> QED BY <2>1, <2>2, <4>1
    <3>2. CASE i # Len(h)
      <4>1. i \in first + 1 .. Len(g) /\ i - 1 \in 1 .. Len(g) /\ h[i] = g[i] /\ h[i - 1] = g[i - 1]
        BY <1>1, <2>2, <3>2
      <4> QED BY <2>1, <4>1 DEF Run
    <3> QED BY <3>1, <3>2
  <2>7. Run(h, n, k, first, Len(h))
    BY <2>3, <2>4, <2>5, <2>6 DEF Run
  <2> QED BY <1>1, <2>2, <2>7 DEF Until, h
<1> QED BY <1>2, <1>3

(* A packet of another transfer changes nothing.                            *)
LEMMA OthersKeep ==
  ASSUME NEW g \in Seq(Packet), NEW n \in Nat, NEW k \in Nat, NEW p \in Packet,
         p.from # k, Holds(g, n, k)
  PROVE  Holds(Append(g, p), n, k)
<1> DEFINE h == Append(g, p)
<1>1. /\ Len(g) \in Nat /\ h[Len(g) + 1] = p
      /\ DOMAIN h = 1 .. Len(g) + 1 /\ DOMAIN g = 1 .. Len(g)
      /\ \A i \in 1 .. Len(g) : h[i] = g[i]
  OBVIOUS
<1> HIDE DEF h
<1>2. PICK first, last \in DOMAIN g :
        first <= last /\ Run(g, n, k, first, last) /\ g[last].off + g[last].len = n
  BY DEF Holds
<1>3. /\ first \in 1 .. Len(g) /\ last \in 1 .. Len(g)
      /\ \A i \in first .. last : i \in 1 .. Len(g) /\ h[i] = g[i]
  BY <1>1
<1>4. \A i \in DOMAIN h : h[i].from = k <=> i \in first .. last
  BY <1>1, <1>2, <1>3 DEF Run
<1>5. \A i \in first + 1 .. last : h[i] = g[i] /\ h[i - 1] = g[i - 1]
  BY <1>1, <1>3
<1>6. Run(h, n, k, first, last)
  BY <1>1, <1>2, <1>3, <1>4, <1>5 DEF Run
<1>7. first \in DOMAIN h /\ last \in DOMAIN h /\ h[last].off + h[last].len = n
  BY <1>1, <1>2, <1>3
<1> QED BY <1>2, <1>6, <1>7 DEF Holds, h
------------------------------------------------------------------------------
(* What the operators of Khci do to the fields that Keeps leaves out.          *)

Same(e, f) ==
  /\ e.data0 = f.data0 /\ e.maxPacketSize = f.maxPacketSize
  /\ e.transferLength = f.transferLength /\ e.transferDone = f.transferDone

LEMMA StallFields ==
  ASSUME NEW e \in GoodEp
  PROVE  Same(EndpointStall(e), e)
BY DEF EndpointStall, Cancel, Same, GoodEp, Endpoint

LEMMA UnstallFields ==
  ASSUME NEW e \in GoodEp
  PROVE  /\ EndpointUnstall(e).data0 = 0
         /\ EndpointUnstall(e).maxPacketSize = e.maxPacketSize
         /\ EndpointUnstall(e).transferLength = e.transferLength
         /\ EndpointUnstall(e).transferDone = e.transferDone
BY DEF EndpointUnstall, Cancel, GoodEp, Endpoint

LEMMA CancelFields ==
  ASSUME NEW e \in GoodEp
  PROVE  Same(Cancel(e), e)
BY DEF Cancel, Same, GoodEp, Endpoint

LEMMA InitFields ==
  ASSUME NEW e \in GoodEp
  PROVE  EndpointInit(e, PacketSize).data0 = 0 /\ EndpointInit(e, PacketSize).maxPacketSize = PacketSize
BY DEF EndpointInit, GoodEp, Endpoint

LEMMA SaveFields ==
  ASSUME NEW e \in GoodEp, ~e.transferring, NEW b \in Buffer, NEW n \in Nat
  PROVE  /\ SaveTransfer(e, b, n).data0 = e.data0
         /\ SaveTransfer(e, b, n).maxPacketSize = e.maxPacketSize
         /\ SaveTransfer(e, b, n).transferLength = n
         /\ SaveTransfer(e, b, n).transferDone = 0
BY DEF SaveTransfer, GoodEp, Endpoint

LEMMA TransferFields ==
  ASSUME NEW e \in GoodEp, NEW off, NEW n
  PROVE  /\ Same(EndpointTransfer(e, off, n), e)
         /\ EndpointTransfer(e, off, n).bd[e.bdtOdd] =
              [own |-> TRUE, stall |-> FALSE, data01 |-> e.data0, from |-> e.transferBuffer,
               off |-> off, len |-> n]
BY DEF EndpointTransfer, Same, GoodEp, Endpoint

LEMMA CountedFields ==
  ASSUME NEW e \in GoodEp, NEW n \in Nat
  PROVE  /\ TokenCounted(e, n).data0 = Flip(e.data0)
         /\ TokenCounted(e, n).maxPacketSize = e.maxPacketSize
         /\ TokenCounted(e, n).transferLength = e.transferLength
         /\ TokenCounted(e, n).transferDone = (e.transferDone + n) % WORD
BY DEF TokenCounted, GoodEp, Endpoint

(* A remainder of a transfer's length is the number itself.                  *)
LEMMA NoOverflow ==
  ASSUME NEW n \in Nat, NEW w \in Nat, n < w
  PROVE  n % w = n
OBVIOUS
------------------------------------------------------------------------------
(* What is reported sent was received. While nothing is forgotten, nor only the  *)
(* host's toggle reset, the packet with the controller is the next of the        *)
(* transfer asked for last; the host has all packets before it, and its toggle   *)
(* tells whether it has this one too.                                        *)

Part == Least(ep.transferLength - ep.transferDone, PacketSize)

PacketDue ==
  [own |-> TRUE, stall |-> FALSE, data01 |-> ep.data0, from |-> N, off |-> ep.transferDone,
   len |-> Part]

Expected == Due(got, ep.transferLength, N, ep.transferDone)
Arrived  == Until(got, ep.transferLength, N, ep.transferDone + Part)

(* The endpoint is at the transfer asked for last.                           *)
AtLast ==
  /\ ENDPT /\ N > 0 /\ N \notin completed
  /\ ep.maxPacketSize = PacketSize /\ ep.transferBuffer = N
  /\ ep.transferLength = length[N] /\ ep.transferDone <= ep.transferLength

Claimed ==
  pc = "send" /\ isBusy =>
    AtLast /\ ep.transferDone = 0 /\ NoneOf(got, N) /\ toggle = ep.data0

Sending ==
  ep.transferring =>
    /\ AtLast
    /\ tokens = << >> => /\ ep.bd[odd] = PacketDue
                         /\ \/ toggle = ep.data0 /\ Expected
                            \/ toggle = Flip(ep.data0) /\ Arrived
    /\ tokens # << >> => ep.bd[Head(tokens)].len = Part /\ toggle = Flip(ep.data0) /\ Arrived

(* An endpoint that may be sent to has the host's toggle.                    *)
Waiting ==
  /\ ENDPT => ep.maxPacketSize = PacketSize
  /\ ENDPT /\ ~pipeStall /\ ~ep.transferring => toggle = ep.data0
  /\ isBusy => ENDPT

Known == \A i \in DOMAIN got : got[i].from \in 1 .. N

Reported == \A k \in completed : Holds(got, length[k], k)

Sent == Claimed /\ Sending /\ Waiting /\ Known /\ Reported

SentInv == StepInv /\ (~forgotten /\ ~unsynced => Sent)

(* The numbers of the last transfer.                                         *)
LEMMA LastTransfer ==
  ASSUME TypeInv, AtLast
  PROVE  /\ N \in Nat /\ N \in 1 .. N /\ N \in Buffer
         /\ ep.transferLength \in Nat /\ ep.transferLength < WORD /\ WORD \in Nat
         /\ ep.transferDone \in Nat /\ ep.transferDone <= ep.transferLength
         /\ Part \in Nat /\ ep.transferDone + Part <= ep.transferLength
         /\ Part = PacketSize \/ ep.transferDone + Part = ep.transferLength
         /\ ep.transferDone + Part < ep.transferLength => Part = PacketSize
<1>1. /\ length \in Seq(Lengths) /\ Len(length) <= MaxTransfers /\ Len(length) > 0
      /\ ep \in Endpoint
  BY DEF TypeInv, Transfers, AtLast, N, GoodEp
<1>2. N \in Nat /\ N \in 1 .. N /\ N \in 1 .. MaxTransfers
  BY <1>1, Constants DEF N
<1>3. ep.transferLength \in Lengths
  <2>1. length[N] \in Lengths
    BY <1>1, <1>2 DEF N
  <2> QED BY <2>1 DEF AtLast
<1>4. /\ ep.transferLength \in Nat /\ ep.transferLength < WORD /\ WORD \in Nat
      /\ ep.transferDone \in Nat
  BY <1>1, <1>3, BulkAssumption, Constants DEF Endpoint
<1>5. ep.transferDone <= ep.transferLength
  BY DEF AtLast
<1> QED BY <1>2, <1>4, <1>5, Constants DEF Part, Least

LEMMA HostTakes ==
  ASSUME TypeInv, Steps, Sending, Known, Reported, Offered, HostAccepts
  PROVE  /\ ep.transferring /\ tokens = << >> /\ odd = ep.bdtOdd /\ AtLast
         /\ ep.bd[odd] = PacketDue /\ toggle' = Flip(ep.data0)
         /\ Until(got', ep.transferLength, N, ep.transferDone + Part)
         /\ \A i \in DOMAIN got' : got'[i].from \in 1 .. N
         /\ \A k \in completed : Holds(got', length[k], k)
<1>1. ep \in GoodEp /\ odd \in Bit /\ got \in Seq(Packet) /\ length \in Seq(Lengths)
      /\ completed \subseteq 1 .. N
  BY DEF TypeInv, Bits, Transfers, N
<1>2. ep.transferring /\ tokens = << >> /\ odd = ep.bdtOdd
  BY <1>1 DEF Steps, Offered, Ready
<1>3. /\ AtLast /\ ep.bd[odd] = PacketDue
      /\ (toggle = ep.data0 /\ Expected) \/ (toggle = Flip(ep.data0) /\ Arrived)
  BY <1>2 DEF Sending
<1>4. ep.data0 \in Bit
  BY <1>1 DEF GoodEp, Endpoint
<1> DEFINE p == [from |-> N, off |-> ep.transferDone, len |-> Part]
<1>5. /\ N \in Nat /\ N \in Buffer /\ N \in 1 .. N
      /\ ep.transferDone \in Nat /\ Part \in Nat /\ ep.transferLength \in Nat
      /\ ep.transferDone <= ep.transferLength
  BY <1>3, LastTransfer
<1>6. p \in Packet /\ p.from = N /\ p.off = ep.transferDone /\ p.len = Part
  BY <1>5 DEF Packet
<1>7. CASE toggle = ep.data0 /\ Expected
  <2>1. got' = Append(got, p) /\ toggle' = Flip(toggle)
    BY <1>3, <1>7 DEF HostAccepts, PacketDue
  <2> HIDE DEF p
  <2>2. Due(got, ep.transferLength, N, ep.transferDone)
    BY <1>7 DEF Expected
  <2>3. Until(got', ep.transferLength, N, ep.transferDone + Part)
    BY <1>1, <1>5, <1>6, <2>1, <2>2, DueJoins DEF Part
  <2>4. \A i \in DOMAIN got' : got'[i].from \in 1 .. N
    BY <1>1, <1>5, <1>6, <2>1 DEF Known
  <2>5. ASSUME NEW k \in completed
        PROVE  Holds(got', length[k], k)
    <3>1. k \in Nat /\ k \in 1 .. N /\ k # N
      BY <1>1, <1>3, <1>5 DEF AtLast
    <3>2. length[k] \in Nat
      <4>1. length[k] \in Lengths
        BY <1>1, <3>1 DEF N
      <4> QED BY <4>1, Constants
    <3>3. Holds(got, length[k], k)
      BY DEF Reported
    <3> QED BY <1>1, <1>6, <2>1, <3>1, <3>2, <3>3, OthersKeep
  <2> QED BY <1>2, <1>3, <1>7, <2>1, <2>3, <2>4, <2>5
<1>8. CASE toggle = Flip(ep.data0) /\ Arrived
  <2>1. toggle # ep.data0
    BY <1>4, <1>8, Flipping
  <2>2. got' = got /\ toggle' = toggle
    BY <1>3, <2>1 DEF HostAccepts, PacketDue
  <2> QED BY <1>2, <1>3, <1>8, <2>2 DEF Arrived, Known, Reported
<1> QED BY <1>3, <1>7, <1>8

(* Main asks for a transfer of n.                                            *)
LEMMA SentClaim ==
  ASSUME TypeInv, Steps, Sent, NEW n \in Lengths, Claim(n)
  PROVE  Sent'
<1>1. /\ ep \in GoodEp /\ length \in Seq(Lengths) /\ completed \subseteq 1 .. N
      /\ got \in Seq(Packet) /\ n \in Nat
  BY Constants DEF TypeInv, Transfers, N
<1>2. /\ ENDPT /\ ~pipeStall /\ ~ep.transferring /\ Len(length) < MaxTransfers
      /\ pc' = "send" /\ isBusy' /\ length' = Append(length, n)
      /\ ep' = SaveTransfer(ep, Len(length'), n)
      /\ UNCHANGED <<odd, ENDPT, tokens, pipeStall, toggle, got, completed>>
  BY DEF Claim, Steps, controllerVars, hostVars
<1>3. N \in Nat /\ N' = N + 1 /\ length'[N + 1] = n /\ \A k \in 1 .. N : length'[k] = length[k]
  BY <1>1, <1>2 DEF N
<1>4. N' \in Buffer
  <2>1. N + 1 \in 1 .. MaxTransfers
    BY <1>1, <1>2, <1>3, Constants DEF N
  <2> QED BY <1>3, <2>1, Constants
<1>5. ep' = SaveTransfer(ep, N', n)
  BY <1>2 DEF N
<1>6. /\ ~ep'.transferring /\ ep'.transferBuffer = N' /\ ep'.transferLength = n
      /\ ep'.transferDone = 0 /\ ep'.data0 = ep.data0 /\ ep'.maxPacketSize = ep.maxPacketSize
  BY <1>1, <1>2, <1>4, <1>5, SaveTransferGood, SaveFields
<1>7. ep.maxPacketSize = PacketSize /\ toggle = ep.data0
  BY <1>2 DEF Sent, Waiting
<1>8. NoneOf(got', N')
  <2>1. \A i \in DOMAIN got : got[i].from \in 1 .. N
    BY DEF Sent, Known
  <2> QED BY <1>2, <1>3, <2>1 DEF NoneOf
<1>9. AtLast'
  BY <1>1, <1>2, <1>3, <1>6, <1>7 DEF AtLast
<1>10. Claimed'
  BY <1>2, <1>6, <1>7, <1>8, <1>9 DEF Claimed
<1>11. Sending' /\ Waiting'
  BY <1>2, <1>6, <1>7 DEF Sending, Waiting
<1>12. Known'
  BY <1>2, <1>3 DEF Sent, Known
<1>13. Reported'
  <2>1. ASSUME NEW k \in completed
        PROVE  Holds(got', length'[k], k)
    <3>1. Holds(got, length[k], k) /\ length'[k] = length[k]
      BY <1>1, <1>3 DEF Sent, Reported
    <3> QED BY <1>2, <3>1
  <2> QED BY <1>2, <2>1 DEF Reported
<1> QED BY <1>10, <1>11, <1>12, <1>13 DEF Sent

(* Main primes the first packet.                                             *)
LEMMA SentPrime ==
  ASSUME TypeInv, Steps, Sent, isBusy, Prime
  PROVE  Sent'
<1>1. /\ ep \in GoodEp /\ length \in Seq(Lengths) /\ ep.bdtOdd \in Bit
  BY DEF TypeInv, Transfers, GoodEp, Endpoint
<1>2. /\ AtLast /\ ep.transferDone = 0 /\ NoneOf(got, N) /\ toggle = ep.data0
      /\ pc = "send" /\ pc' = "idle" /\ tokens = << >> /\ ep.bdtOdd = odd
      /\ UNCHANGED <<odd, ENDPT, tokens, isBusy, pipeStall, length, toggle, got, completed>>
  BY DEF Prime, Sent, Claimed, Steps, controllerVars, hostVars
<1>3. ep' = EndpointTransfer(ep, ep.transferDone, Part)
  <2>1. PICK max \in {PacketSize, ep.maxPacketSize} :
          ep' = EndpointTransfer(ep, ep.transferDone, Least(Last(length), max))
    BY DEF Prime
  <2>2. max = PacketSize /\ Last(length) = ep.transferLength
    BY <1>2, <2>1 DEF AtLast, Last, N
  <2>3. ep.transferLength - ep.transferDone = ep.transferLength
    BY <1>2, LastTransfer
  <2> QED BY <2>1, <2>2, <2>3 DEF Part
<1>4. ep.transferDone \in Nat /\ Part \in Nat /\ Part <= PacketSize
  BY <1>2, LastTransfer, Constants DEF Part, Least
<1>5. /\ ep'.transferring /\ ep'.transferBuffer = ep.transferBuffer /\ Same(ep', ep)
      /\ ep'.bd[odd] = PacketDue
  BY <1>1, <1>2, <1>3, <1>4, EndpointTransferGood, TransferFields DEF Keeps, PacketDue, AtLast
<1>6. N' = N /\ Part' = Part /\ PacketDue' = PacketDue
  BY <1>2, <1>5 DEF N, Part, PacketDue, Same
<1>7. AtLast'
  BY <1>2, <1>5, <1>6 DEF AtLast, Same
<1>8. Expected'
  BY <1>2, <1>5, <1>6 DEF Expected, Due, Same
<1>9. Sending'
  BY <1>2, <1>5, <1>6, <1>7, <1>8 DEF Sending, Same
<1>10. Claimed' /\ Waiting'
  BY <1>2, <1>5 DEF Claimed, Waiting, Sent, Same
<1>11. Known' /\ Reported'
  BY <1>2, <1>6 DEF Known, Reported, Sent
<1> QED BY <1>9, <1>10, <1>11 DEF Sent

(* The host takes a packet, and its handshake arrives.                       *)
LEMMA SentInToken ==
  ASSUME TypeInv, Steps, Sent, InToken
  PROVE  Sent'
<1>1. /\ ep \in GoodEp /\ odd \in Bit /\ tokens \in Seq(Bit)
      /\ Offered /\ HostAccepts
      /\ tokens' = Append(tokens, odd) /\ ep' = [ep EXCEPT !.bd[odd].own = FALSE]
      /\ UNCHANGED <<ENDPT, isBusy, pipeStall, pc, length, completed>>
  BY DEF InToken, TypeInv, Bits
<1>2. /\ ep.transferring /\ tokens = << >> /\ odd = ep.bdtOdd /\ AtLast
      /\ ep.bd[odd] = PacketDue /\ toggle' = Flip(ep.data0)
      /\ Until(got', ep.transferLength, N, ep.transferDone + Part)
      /\ \A j \in DOMAIN got' : got'[j].from \in 1 .. N
      /\ \A k \in completed : Holds(got', length[k], k)
  BY <1>1, HostTakes DEF Sent
<1>3. /\ Same(ep', ep) /\ ep'.transferring /\ ep'.transferBuffer = ep.transferBuffer
      /\ ep'.bd[odd].len = ep.bd[odd].len
  BY <1>1, <1>2 DEF Same, GoodEp, Endpoint, Descriptor
<1>4. tokens' # << >> /\ Head(tokens') = odd
  BY <1>1, <1>2
<1>5. N' = N /\ Part' = Part /\ ep.bd[odd].len = Part
  BY <1>1, <1>2, <1>3 DEF N, Part, PacketDue, Same
<1>6. AtLast'
  BY <1>1, <1>2, <1>3, <1>5 DEF AtLast, Same
<1>7. Arrived'
  BY <1>2, <1>3, <1>5 DEF Arrived, Same
<1>8. Sending'
  BY <1>2, <1>3, <1>4, <1>5, <1>6, <1>7 DEF Sending, Same
<1>9. Claimed' /\ Waiting'
  BY <1>1, <1>2, <1>3 DEF Claimed, Waiting, Sent, Steps, Same
<1>10. Known' /\ Reported'
  BY <1>1, <1>2, <1>5 DEF Known, Reported
<1> QED BY <1>8, <1>9, <1>10 DEF Sent

(* It takes a packet whose handshake is lost.                                *)
LEMMA SentUnacknowledged ==
  ASSUME TypeInv, Steps, Sent, InTokenUnacknowledged
  PROVE  Sent'
<1>1. /\ Offered /\ HostAccepts
      /\ UNCHANGED <<ep, odd, ENDPT, tokens, isBusy, pipeStall, pc, length, completed>>
  BY DEF InTokenUnacknowledged, controllerVars
<1>2. /\ ep.transferring /\ tokens = << >> /\ AtLast
      /\ ep.bd[odd] = PacketDue /\ toggle' = Flip(ep.data0)
      /\ Until(got', ep.transferLength, N, ep.transferDone + Part)
      /\ \A j \in DOMAIN got' : got'[j].from \in 1 .. N
      /\ \A k \in completed : Holds(got', length[k], k)
  BY <1>1, HostTakes DEF Sent
<1>3. N' = N /\ Part' = Part /\ PacketDue' = PacketDue
  BY <1>1 DEF N, Part, PacketDue
<1>4. AtLast'
  BY <1>1, <1>2, <1>3 DEF AtLast
<1>5. Arrived'
  BY <1>1, <1>2, <1>3 DEF Arrived
<1>6. Sending'
  BY <1>1, <1>2, <1>3, <1>4, <1>5 DEF Sending
<1>7. Claimed' /\ Waiting'
  BY <1>1, <1>2 DEF Claimed, Waiting, Sent, Steps
<1>8. Known' /\ Reported'
  BY <1>1, <1>2, <1>3 DEF Known, Reported
<1> QED BY <1>6, <1>7, <1>8 DEF Sent

(* The interrupt counts a packet, and primes the next one or reports the          *)
(* transfer.                                                                 *)
LEMMA SentTokenDone ==
  ASSUME TypeInv, Steps, Sent, TokenDone
  PROVE  Sent'
<1> DEFINE len == ep.bd[Head(tokens)].len
           e   == TokenCounted(ep, len)
<1>1. /\ ep \in GoodEp /\ odd \in Bit /\ tokens \in Seq(Bit) /\ tokens # << >>
      /\ length \in Seq(Lengths) /\ got \in Seq(Packet) /\ completed \subseteq 1 .. N
      /\ tokens' = Tail(tokens)
      /\ UNCHANGED <<odd, ENDPT, pipeStall, pc, length, toggle, got>>
  BY DEF TokenDone, TypeInv, Bits, Transfers, hostVars, N
<1>2. /\ Len(tokens) = 1 /\ ep.transferring /\ ep.bdtOdd = Flip(odd) /\ isBusy
      /\ pc # "send"
  BY <1>1 DEF Steps
<1>3. tokens' = << >>
  BY <1>1, <1>2
<1>4. AtLast /\ len = Part /\ toggle = Flip(ep.data0) /\ Arrived
  BY <1>1, <1>2 DEF Sent, Sending
<1>5. /\ N \in Nat /\ N \in 1 .. N /\ N \in Buffer
      /\ ep.transferLength \in Nat /\ ep.transferLength < WORD /\ WORD \in Nat
      /\ ep.transferDone \in Nat /\ Part \in Nat
      /\ ep.transferDone + Part <= ep.transferLength
      /\ ep.transferDone + Part < ep.transferLength => Part = PacketSize
  BY <1>4, LastTransfer
<1>6. ep.maxPacketSize = PacketSize /\ ep.transferBuffer = N /\ PacketSize \in Nat \ {0}
  BY <1>4, Constants DEF AtLast
<1> DEFINE done == ep.transferDone + Part
<1>7. /\ done \in Nat /\ done % WORD = done
      /\ (ep.transferLength - done) % WORD = ep.transferLength - done
      /\ ep.transferLength - done \in Nat
  <2>1. done \in Nat /\ done < WORD /\ ep.transferLength - done \in Nat
        /\ ep.transferLength - done < WORD
    BY <1>5
  <2> HIDE DEF done
  <2>2. \A n \in Nat : n < WORD => n % WORD = n
    BY <1>5, NoOverflow
  <2> QED BY <2>1, <2>2
<1> HIDE DEF done
<1>8. /\ e \in GoodEp /\ e.transferring /\ e.bdtOdd = odd /\ e.transferBuffer = N
      /\ e.data0 = toggle /\ e.maxPacketSize = PacketSize
      /\ e.transferLength = ep.transferLength /\ e.transferDone = done
  <2>1. len \in Nat
    BY <1>4, <1>5
  <2> HIDE DEF len
  <2>2. /\ e \in GoodEp /\ e.transferring = ep.transferring
        /\ e.bdtOdd = Flip(ep.bdtOdd) /\ e.transferBuffer = ep.transferBuffer
        /\ e.data0 = Flip(ep.data0) /\ e.maxPacketSize = ep.maxPacketSize
        /\ e.transferLength = ep.transferLength
        /\ e.transferDone = (ep.transferDone + len) % WORD
    BY <1>1, <2>1, CountedGood, CountedFields
  <2> HIDE DEF e
  <2>3. Flip(ep.bdtOdd) = odd
    BY <1>1, <1>2, Flipping
  <2>4. (ep.transferDone + len) % WORD = done
    BY <1>4, <1>7 DEF done
  <2> QED BY <1>2, <1>4, <1>6, <2>2, <2>3, <2>4
<1>9. Remaining(e) = ep.transferLength - done
  BY <1>7, <1>8 DEF Remaining
<1>10. TransferComplete(e, len) <=> done = ep.transferLength
  BY <1>4, <1>5, <1>6, <1>7, <1>8, <1>9 DEF TransferComplete, done, Part, Least
<1>11. N' = N
  BY <1>1 DEF N
<1>12. Until(got, ep.transferLength, N, done)
  BY <1>4 DEF Arrived, done
<1>13. CASE TransferComplete(e, len)
  <2>1. ep' = Cancel(e) /\ isBusy' = FALSE /\ completed' = completed \cup {N}
    BY <1>2, <1>6, <1>13 DEF TokenDone, len, e
  <2> HIDE DEF e
  <2>2. ~ep'.transferring /\ ep'.data0 = toggle /\ ep'.maxPacketSize = PacketSize
    BY <1>8, <2>1, CancelGood, CancelFields DEF Same
  <2>3. Sending' /\ Claimed' /\ Waiting'
    BY <1>1, <1>2, <2>1, <2>2 DEF Sending, Claimed, Waiting
  <2>4. Known'
    BY <1>1, <1>11 DEF Sent, Known
  <2>5. Holds(got, length[N], N)
    <3>1. done = ep.transferLength /\ ep.transferLength = length[N]
      BY <1>4, <1>10, <1>13 DEF AtLast, e
    <3> QED BY <1>1, <1>5, <1>12, <3>1, UntilHolds
  <2>6. Reported'
    BY <1>1, <2>1, <2>5 DEF Sent, Reported
  <2> QED BY <2>3, <2>4, <2>6 DEF Sent
<1>14. CASE ~TransferComplete(e, len)
  <2>1. ep' = Continued(e) /\ UNCHANGED <<isBusy, completed>>
    BY <1>2, <1>14 DEF TokenDone, len, e
  <2>2. done < ep.transferLength /\ done # 0
    BY <1>5, <1>6, <1>7, <1>10, <1>14 DEF done
  <2> HIDE DEF e
  <2> DEFINE part == Least(ep.transferLength - done, PacketSize)
  <2>3. ep' = EndpointTransfer(e, done, part)
    BY <1>8, <1>9, <2>1 DEF Continued, Transfer, SaveTransfer
  <2>4. part \in Nat /\ part <= PacketSize
    BY <1>6, <1>7 DEF Least
  <2> HIDE DEF part
  <2>5. /\ ep'.transferring /\ ep'.transferBuffer = N /\ Same(ep', e)
        /\ ep'.bd[odd] = [own |-> TRUE, stall |-> FALSE, data01 |-> e.data0, from |-> N,
                          off |-> done, len |-> part]
    BY <1>7, <1>8, <2>3, <2>4, EndpointTransferGood, TransferFields DEF Keeps
  <2>6. /\ ep'.data0 = toggle /\ ep'.maxPacketSize = PacketSize
        /\ ep'.transferLength = ep.transferLength /\ ep'.transferDone = done
    BY <1>8, <2>5 DEF Same
  <2>7. Part' = part
    BY <2>6 DEF Part, part
  <2>8. ep'.bd[odd] = PacketDue'
    BY <1>1, <1>8, <1>11, <2>5, <2>6, <2>7 DEF PacketDue
  <2>9. AtLast'
    BY <1>1, <1>4, <1>5, <1>11, <2>1, <2>2, <2>5, <2>6 DEF AtLast, done
  <2>10. Expected'
    BY <1>1, <1>11, <1>12, <2>2, <2>6 DEF Expected, Due
  <2>11. Sending'
    BY <1>1, <1>3, <2>5, <2>6, <2>8, <2>9, <2>10 DEF Sending
  <2>12. Claimed' /\ Waiting'
    BY <1>1, <1>2, <2>1, <2>5, <2>6 DEF Claimed, Waiting, Sent
  <2>13. Known' /\ Reported'
    BY <1>1, <1>11, <2>1 DEF Known, Reported, Sent
  <2> QED BY <2>11, <2>12, <2>13 DEF Sent
<1> QED BY <1>13, <1>14

(* The host halts the pipe, or ends a halt: whatever was under way is given up.   *)
LEMMA SentHalt ==
  ASSUME TypeInv, Steps, Sent, SetHalt \/ ClearHalt
  PROVE  Sent'
<1>1. /\ ep \in GoodEp
      /\ isBusy' = IF ep.transferring THEN FALSE ELSE isBusy
      /\ UNCHANGED <<odd, ENDPT, tokens, pc, length, got, completed>>
  <2>1. ep \in GoodEp
    BY DEF TypeInv
  <2>2. CASE SetHalt
    BY <2>1, <2>2, Zenon DEF SetHalt, controllerVars, hostVars
  <2>3. CASE ClearHalt
    BY <2>1, <2>3, Zenon DEF ClearHalt, controllerVars
  <2> QED BY <2>2, <2>3
<1>2. /\ ~ep'.transferring /\ ep'.transferBuffer = ep.transferBuffer
      /\ ep'.maxPacketSize = ep.maxPacketSize
      /\ ep'.transferLength = ep.transferLength /\ ep'.transferDone = ep.transferDone
      /\ pipeStall' \/ toggle' = ep'.data0
      /\ toggle = ep.data0 => toggle' = ep'.data0
  <2>1. CASE SetHalt
    <3>1. ep' = EndpointStall(ep) /\ pipeStall' /\ toggle' = toggle
      BY <2>1 DEF SetHalt, hostVars
    <3>2. ~EndpointStall(ep).transferring /\ Keeps(EndpointStall(ep), ep, {ep.bdtOdd})
          /\ Same(EndpointStall(ep), ep)
      BY <1>1, StallGood, StallFields
    <3> QED BY <3>1, <3>2 DEF Keeps, Same
  <2>2. CASE ClearHalt
    <3>1. ep' = EndpointUnstall(ep) /\ toggle' = 0
      BY <2>2 DEF ClearHalt
    <3> QED BY <1>1, <3>1, UnstallGood, UnstallFields
  <2> QED BY <2>1, <2>2
<1>3. N' = N
  BY <1>1 DEF N
<1>4. Sending' /\ Waiting'
  BY <1>1, <1>2 DEF Sending, Waiting, Sent
<1>5. Claimed'
  <2> SUFFICES ASSUME pc' = "send" /\ isBusy'
               PROVE  AtLast' /\ ep'.transferDone = 0 /\ NoneOf(got', N') /\ toggle' = ep'.data0
    BY DEF Claimed
  <2>1. AtLast /\ ep.transferDone = 0 /\ NoneOf(got, N) /\ toggle = ep.data0
    BY <1>1 DEF Sent, Claimed
  <2>2. AtLast'
    BY <1>1, <1>2, <1>3, <2>1 DEF AtLast
  <2> QED BY <1>1, <1>2, <1>3, <2>1, <2>2
<1>6. Known' /\ Reported'
  BY <1>1, <1>3 DEF Known, Reported, Sent
<1> QED BY <1>4, <1>5, <1>6 DEF Sent

(* A bus reset, from whatever state: what was sent before it is forgotten on both  *)
(* sides.                                                                    *)
LEMMA SentReset ==
  ASSUME TypeInv, BusReset
  PROVE  Sent'
<1>1. ep \in GoodEp
  BY DEF TypeInv
<1>2. /\ ep' = SetDefaultState(ep) /\ ~ENDPT' /\ ~isBusy' /\ got' = << >> /\ completed' = {}
  BY DEF BusReset
<1>3. ~ep'.transferring
  BY <1>1, <1>2, SetDefaultGood
<1> QED BY <1>2, <1>3 DEF Sent, Claimed, Sending, Waiting, Known, Reported

(* SET_CONFIGURATION and SET_INTERFACE.                                      *)
LEMMA SentConfigure ==
  ASSUME TypeInv, Steps, Sent, Unconfigure \/ Configure \/ (Reconfigure /\ ~unsynced')
  PROVE  Sent'
<1>1. ep \in GoodEp
  BY DEF TypeInv
<1>2. N' = N /\ UNCHANGED <<length, got, completed>>
  BY DEF N, Unconfigure, Configure, Reconfigure, hostVars
<1>3. Known' /\ Reported'
  BY <1>2 DEF Known, Reported, Sent
<1>4. CASE Unconfigure
  <2>1. ep' = EndpointDeinit(ep) /\ ~ENDPT' /\ ~isBusy'
    BY <1>4 DEF Unconfigure
  <2>2. ~ep'.transferring
    BY <1>1, <2>1, DeinitGood
  <2> QED BY <1>3, <2>1, <2>2 DEF Sent, Claimed, Sending, Waiting
<1>5. CASE Configure
  <2>1. ep' = EndpointInit(ep, PacketSize) /\ ~isBusy' /\ toggle' = 0
    BY <1>5 DEF Configure
  <2>2. ~ep'.transferring /\ ep'.data0 = 0 /\ ep'.maxPacketSize = PacketSize
    BY <1>1, <2>1, InitGood, InitFields
  <2> QED BY <1>3, <2>1, <2>2 DEF Sent, Claimed, Sending, Waiting
<1>6. CASE Reconfigure /\ ~unsynced'
  <2>1. /\ UNCHANGED <<ep, odd, ENDPT, tokens, isBusy, pipeStall, pc, length, got, completed>>
        /\ toggle' = toggle
    BY <1>6 DEF Reconfigure, controllerVars
  <2>2. PacketDue' = PacketDue /\ Expected' = Expected /\ Arrived' = Arrived /\ Part' = Part
        /\ AtLast' = AtLast
    BY <1>2, <2>1 DEF PacketDue, Expected, Arrived, Part, AtLast
  <2> QED BY <1>2, <1>3, <2>1, <2>2 DEF Sent, Claimed, Sending, Waiting
<1> QED BY <1>4, <1>5, <1>6

LEMMA SentNext ==
  ASSUME SentInv, [Next]_vars
  PROVE  ~forgotten' /\ ~unsynced' => Sent'
<1> SUFFICES ASSUME ~forgotten', ~unsynced'
             PROVE  Sent'
  OBVIOUS
<1>1. TypeInv
  BY DEF SentInv, StepInv
<1>2. CASE BusReset
  BY <1>1, <1>2, SentReset
<1>3. CASE ~BusReset
  <2>1. ~forgotten /\ ~unsynced
    <3>1. CASE Main
      <4>1. CASE \E n \in Lengths : Claim(n)
        BY <4>1 DEF Claim, historyVars
      <4>2. CASE Prime
        BY <4>2 DEF Prime
      <4> QED BY <3>1, <4>1, <4>2 DEF Main
    <3>2. CASE InToken \/ InTokenUnacknowledged \/ TokenDone
      BY <3>2 DEF InToken, InTokenUnacknowledged, TokenDone, historyVars
    <3>3. CASE Host
      <4>1. CASE Unconfigure \/ Configure
        <5>1. CASE Unconfigure
          BY <5>1 DEF Unconfigure
        <5>2. CASE Configure
          BY <5>2 DEF Configure
        <5> QED BY <4>1, <5>1, <5>2
      <4>2. CASE Reconfigure
        BY <4>2 DEF Reconfigure
      <4>3. CASE SetHalt \/ ClearHalt
        <5>1. CASE SetHalt
          BY <5>1, Zenon DEF SetHalt, historyVars
        <5>2. CASE ClearHalt
          BY <5>2, Zenon DEF ClearHalt, historyVars
        <5> QED BY <4>3, <5>1, <5>2
      <4> QED BY <1>3, <3>3, <4>1, <4>2, <4>3 DEF Host
    <3>4. CASE UNCHANGED vars
      BY <3>4 DEF vars, historyVars
    <3> QED BY <3>1, <3>2, <3>3, <3>4 DEF Next
  <2>2. Steps /\ Sent
    BY <2>1 DEF SentInv, StepInv
  <2>3. Prime => isBusy
    BY DEF Prime
  <2>4. CASE UNCHANGED vars
    <3>1. UNCHANGED <<ep, odd, ENDPT, tokens, isBusy, pipeStall, pc, length, toggle, got,
                      completed>>
      BY <2>4 DEF vars, controllerVars, hostVars
    <3>2. /\ N' = N /\ PacketDue' = PacketDue /\ Expected' = Expected /\ Arrived' = Arrived
          /\ Part' = Part /\ AtLast' = AtLast
      BY <3>1 DEF N, PacketDue, Expected, Arrived, Part, AtLast
    <3> QED BY <2>2, <3>1, <3>2 DEF Sent, Claimed, Sending, Waiting, Known, Reported
  <2> QED BY <1>1, <1>3, <2>1, <2>2, <2>3, <2>4, SentClaim, SentPrime, SentInToken,
             SentUnacknowledged, SentTokenDone, SentHalt, SentConfigure DEF Next, Main, Host
<1> QED BY <1>2, <1>3

LEMMA SentInit ==
  Init => Sent
<1>1. Init => N = 0 /\ ~ep.transferring /\ ~ENDPT /\ ~isBusy /\ got = << >> /\ completed = {}
  BY NewGood DEF Init, N
<1> QED BY <1>1 DEF Sent, Claimed, Sending, Waiting, Known, Reported

(* A transfer that is reported sent was received, all of it, each packet once and  *)
(* in order, although handshakes are lost and the pipe is halted, reset and       *)
(* configured between any two packets.                                       *)
THEOREM SentIsReceived == Spec => []SentMeansReceived
<1>1. SentInv /\ [Next]_vars => SentInv'
  BY TypeNext, StepNext, SentNext DEF SentInv, StepInv
<1>2. Init => SentInv
  BY StepInit, SentInit DEF SentInv
<1>3. SentInv => SentMeansReceived
  BY ReceivedHolds DEF SentInv, Sent, Reported, SentMeansReceived
<1> QED BY <1>1, <1>2, <1>3, PTL DEF Spec
==============================================================================
