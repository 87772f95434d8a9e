---------------------------- MODULE BufMgrProofs ----------------------------
(***************************************************************************)
(* Proofs about the buffer manager, for any number of frames and pages and *)
(* whatever calls of the file fail: TypeOK, PinnedFrameKept, PutIsInFile   *)
(* and PinSeesPut, from one inductive invariant.                           *)
(***************************************************************************)
EXTENDS BufMgr, SequenceTheorems, TLAPS

(* No frame twice in a chain.                                              *)
Distinct(chain) ==
    \A i, j \in DOMAIN chain : chain[i].bufNum = chain[j].bufNum => i = j

(* Where the bucket does not point to a deleted entry, the chain has the   *)
(* frames that hold its pages, and every such frame is in it.              *)
ChainsLead ==
    \A h \in Frame \ freed :
        /\ Distinct(mppHash[h])
        /\ \A i \in DOMAIN mppHash[h] :
            /\ Hash(mppHash[h][i].pageNum) = h
            /\ mPageNum[mppHash[h][i].bufNum] = mppHash[h][i].pageNum

FramesLinked ==
    \A f \in Frame : InUse(f) => Hash(mPageNum[f]) \in freed \/ Finds(mPageNum[f], f)

OneFrame == \A f, g \in Frame : InUse(f) /\ mPageNum[f] = mPageNum[g] => f = g

Counted ==
    \A f \in Frame :
        /\ mUsageCount[f] = mRefCount[f]
        /\ InUse(f) => mRefCount[f] = held[<<mPageNum[f], f>>] + LeftBehind(f)
        /\ ~ InUse(f) => mRefCount[f] = 0 /\ f \notin unread
        /\ \A p \in Page : held[<<p, f>>] > 0 => mPageNum[f] = p

(* Pinned or not, a frame whose page was read has what was last put there. *)
FrameHasPage ==
    \A f \in Frame :
        InUse(f) /\ f \notin unread /\ mPageNum[f] \notin excused
            => mppBufData[f] = latest[mPageNum[f]]

EmptyFile == size = 0 => \A p \in Page : file[p] = Zero

Inv ==
    /\ TypeOK
    /\ ChainsLead /\ FramesLinked /\ OneFrame
    /\ Counted
    /\ FrameHasPage /\ EmptyFile /\ PutIsInFile

(***************************************************************************)
(* Lemmas                                                                  *)
(***************************************************************************)

LEMMA HashInFrame ==
    ASSUME NEW p \in Page
    PROVE  Hash(p) \in Frame
<1>1. BufCount \in Nat /\ BufCount > 0 /\ p \in Nat
  BY BufAssumption DEF Page
<1>2. p % BufCount \in 0 .. BufCount - 1
  BY <1>1
<1> QED
  BY <1>2 DEF Hash, Frame

LEMMA Pages ==
    /\ kInvalidPageNum \notin Page
    /\ Page \subseteq Nat
    /\ Frame \subseteq Nat
BY BufAssumption DEF Page, Frame, kInvalidPageNum

(* Taking a frame out of a chain leaves the others and no other.           *)
LEMMA UnlinkedChain ==
    ASSUME NEW chain \in Seq(Entry), Distinct(chain), NEW f \in Frame
    PROVE  LET rest == Unlinked(chain, f)
           IN  /\ rest \in Seq(Entry)
               /\ Distinct(rest)
               /\ \A i \in DOMAIN rest :
                      /\ rest[i].bufNum # f
                      /\ \E k \in DOMAIN chain : rest[i] = chain[k]
               /\ \A k \in DOMAIN chain : chain[k].bufNum # f =>
                      \E i \in DOMAIN rest : rest[i] = chain[k]
<1> DEFINE rest == Unlinked(chain, f)
<1>1. CASE ~ \E i \in DOMAIN chain : chain[i].bufNum = f
  <2>1. rest = chain
    BY <1>1 DEF Unlinked
  <2> QED
    BY <2>1, <1>1
<1>2. CASE \E i \in DOMAIN chain : chain[i].bufNum = f
  <2> DEFINE at == CHOOSE i \in DOMAIN chain : chain[i].bufNum = f
  <2>1. at \in DOMAIN chain /\ chain[at].bufNum = f
    BY <1>2
  <2>2. rest = SubSeq(chain, 1, at - 1) \o SubSeq(chain, at + 1, Len(chain))
    BY <1>2 DEF Unlinked, RemoveAt
  <2> HIDE DEF at
  <2>3. at \in 1 .. Len(chain)
    BY <2>1
  <2>4. /\ rest \in Seq(Entry)
        /\ Len(rest) = Len(chain) - 1
        /\ \A i \in 1 .. Len(rest) :
               rest[i] = IF i < at THEN chain[i] ELSE chain[i + 1]
    <3> DEFINE before == SubSeq(chain, 1, at - 1)
               after  == SubSeq(chain, at + 1, Len(chain))
    <3>1. /\ before \in Seq(Entry) /\ Len(before) = at - 1
          /\ \A i \in 1 .. at - 1 : before[i] = chain[i]
      BY <2>3
    <3>2. /\ after \in Seq(Entry) /\ Len(after) = Len(chain) - at
          /\ \A i \in 1 .. Len(chain) - at : after[i] = chain[at + i]
      BY <2>3
    <3>3. rest = before \o after
      BY <2>2
    <3> HIDE DEF before, after, rest
    <3>4. rest \in Seq(Entry) /\ Len(rest) = Len(before) + Len(after)
      BY <3>1, <3>2, <3>3, ConcatProperties
    <3>5. \A i \in 1 .. Len(rest) :
              rest[i] = IF i <= Len(before) THEN before[i] ELSE after[i - Len(before)]
      <4>1. \A i \in 1 .. Len(before) + Len(after) : (before \o after)[i] =
                IF i <= Len(before) THEN before[i] ELSE after[i - Len(before)]
        BY <3>1, <3>2, ConcatProperties, Zenon
      <4> QED
        BY <3>3, <3>4, <4>1, Zenon
    <3>6. ASSUME NEW i \in 1 .. Len(rest)
          PROVE  rest[i] = IF i < at THEN chain[i] ELSE chain[i + 1]
      <4>1. CASE i < at
        BY <4>1, <3>1, <3>5, <2>3
      <4>2. CASE ~ i < at
        <5>1. i - (at - 1) \in 1 .. Len(chain) - at
          BY <4>2, <3>1, <3>2, <3>4, <2>3
        <5>2. rest[i] = after[i - (at - 1)]
          BY <4>2, <3>1, <3>5, <2>3
        <5>3. after[i - (at - 1)] = chain[at + (i - (at - 1))]
          BY <5>1, <3>2
        <5>4. at + (i - (at - 1)) = i + 1
          BY <2>3
        <5> QED
          BY <4>2, <5>2, <5>3, <5>4
      <4> QED
        BY <4>1, <4>2
    <3> QED
      BY <3>1, <3>2, <3>4, <3>6, <2>3
  <2> HIDE DEF rest
  <2>5. \A k \in 1 .. Len(chain) : chain[k].bufNum = f => k = at
    BY <2>1 DEF Distinct
  <2>6. Distinct(rest)
    BY <2>3, <2>4 DEF Distinct
  <2>7. \A i \in DOMAIN rest : /\ rest[i].bufNum # f
                               /\ \E k \in DOMAIN chain : rest[i] = chain[k]
    BY <2>3, <2>4, <2>5
  <2>8. ASSUME NEW k \in DOMAIN chain, chain[k].bufNum # f
        PROVE  \E i \in DOMAIN rest : rest[i] = chain[k]
    <3>1. k \in 1 .. Len(chain) /\ k # at
      BY <2>1, <2>8
    <3>2. CASE k < at
      BY <3>1, <3>2, <2>3, <2>4
    <3>3. CASE k > at
      <4>1. k - 1 \in 1 .. Len(rest) /\ rest[k - 1] = chain[k]
        BY <3>1, <3>3, <2>3, <2>4
      <4> QED
        BY <4>1, <2>4
    <3> QED
      BY <3>1, <3>2, <3>3, <2>3
  <2> QED
    BY <2>4, <2>6, <2>7, <2>8 DEF rest
<1> QED
  BY <1>1, <1>2

(* An entry goes to the end of a chain that does not have the frame.       *)
LEMMA InsertedChain ==
    ASSUME NEW chain \in Seq(Entry), Distinct(chain), NEW p \in Page, NEW f \in Frame,
           \A i \in DOMAIN chain : chain[i].bufNum # f
    PROVE  LET longer == Inserted(chain, p, f)
           IN  /\ longer \in Seq(Entry)
               /\ Distinct(longer)
               /\ \A i \in DOMAIN longer :
                      \/ longer[i] = [pageNum |-> p, bufNum |-> f]
                      \/ \E k \in DOMAIN chain : longer[i] = chain[k]
               /\ \E i \in DOMAIN longer : longer[i] = [pageNum |-> p, bufNum |-> f]
               /\ \A k \in DOMAIN chain : \E i \in DOMAIN longer : longer[i] = chain[k]
<1> DEFINE entry == [pageNum |-> p, bufNum |-> f]
           longer == Inserted(chain, p, f)
<1>1. longer = Append(chain, entry)
  BY DEF Inserted
<1>2. entry \in Entry /\ entry.bufNum = f
  BY DEF Entry
<1> HIDE DEF entry, longer
<1>3. /\ longer \in Seq(Entry)
      /\ Len(longer) = Len(chain) + 1
      /\ longer[Len(chain) + 1] = entry
      /\ \A i \in 1 .. Len(chain) : longer[i] = chain[i]
  BY <1>1, <1>2
<1>4. Distinct(longer)
  BY <1>2, <1>3 DEF Distinct
<1> QED
  BY <1>3, <1>4 DEF longer, entry

(***************************************************************************)
(* What a look-up finds                                                    *)
(***************************************************************************)

LEMMA FindsFrameOfPage ==
    ASSUME ChainsLead, NEW p \in Page, NEW f \in Frame, Hash(p) \notin freed, Finds(p, f)
    PROVE  mPageNum[f] = p
BY HashInFrame DEF ChainsLead, Finds

LEMMA MissesAllFrames ==
    ASSUME FramesLinked, NEW p \in Page, Hash(p) \notin freed, Misses(p)
    PROVE  \A f \in Frame : mPageNum[f] # p
<1> SUFFICES ASSUME NEW f \in Frame, mPageNum[f] = p
             PROVE  FALSE
  OBVIOUS
<1>1. InUse(f)
  BY Pages DEF InUse
<1>2. Finds(p, f)
  BY <1>1 DEF FramesLinked
<1> QED
  BY <1>2 DEF Finds, Misses

(* A frame that is pinned is the one its page is found in.                 *)
LEMMA FindsPinnedFrame ==
    ASSUME Inv, NEW p \in Page, NEW f \in Frame, NEW g \in Frame,
           held[<<p, f>>] > 0, Hash(p) \notin freed, Finds(p, g)
    PROVE  f = g
<1>1. mPageNum[f] = p /\ mPageNum[g] = p
  BY FindsFrameOfPage DEF Inv, Counted
<1> QED
  BY <1>1, Pages DEF Inv, OneFrame, InUse

(* What is not in the frame a page is found in does not change with it.    *)
LEMMA SameChains ==
    ASSUME ChainsLead, FramesLinked, OneFrame, UNCHANGED <<mPageNum, mppHash, freed>>
    PROVE  ChainsLead' /\ FramesLinked' /\ OneFrame'
BY DEF ChainsLead, FramesLinked, OneFrame, Finds, InUse, Hash, Distinct

(***************************************************************************)
(* The initial states and the steps                                        *)
(***************************************************************************)

LEMMA InitInv == Init => Inv
<1> SUFFICES ASSUME Init PROVE Inv
  OBVIOUS
<1> PICK s \in Files :
        /\ size = Len(s)
        /\ file = [p \in Page |-> IF p < Len(s) THEN s[p + 1] ELSE Zero]
  BY DEF Init
<1>1. s \in Seq(Content) /\ Len(s) \in Nat /\ Len(s) <= MaxPage + 1
  BY BufAssumption
<1>2. file \in [Page -> Content]
  <2>1. \A p \in Page : p < Len(s) => s[p + 1] \in Content
    BY <1>1 DEF Page
  <2> QED
    BY <2>1, BufAssumption
<1>3. size \in 0 .. MaxPage + 1
  BY <1>1, BufAssumption
<1>4. TypeOK
  BY <1>2, <1>3 DEF Init, TypeOK
<1>5. ChainsLead /\ FramesLinked /\ OneFrame
  BY DEF Init, ChainsLead, FramesLinked, OneFrame, Distinct, InUse
<1>6. Counted
  BY Pages DEF Init, Counted, InUse
<1>7. FrameHasPage /\ EmptyFile /\ PutIsInFile
  BY <1>1, Pages DEF Init, FrameHasPage, EmptyFile, PutIsInFile, InUse, Page
<1> QED
  BY <1>4, <1>5, <1>6, <1>7 DEF Inv

LEMMA QuietStep ==
    ASSUME Inv,
           UNCHANGED <<fileVars, descs, mppBufData, mppHash, freed, held, history>>,
           pc' \in {"ready", "looping", "undefined"},
           answer' \in {"kOK", "kEOF", "kIOError", "none"}
    PROVE  Inv'
<1> USE DEF fileVars, descs, history
<1>1. TypeOK'
  BY DEF Inv, TypeOK
<1>2. ChainsLead' /\ FramesLinked' /\ OneFrame'
  BY SameChains DEF Inv
<1>3. Counted'
  BY DEF Inv, Counted, InUse, LeftBehind
<1>4. FrameHasPage' /\ EmptyFile' /\ PutIsInFile'
  BY DEF Inv, FrameHasPage, EmptyFile, PutIsInFile, InUse
<1> QED
  BY <1>1, <1>2, <1>3, <1>4 DEF Inv

LEMMA PinHitInv ==
    ASSUME Inv, NEW p \in Page, PinHit(p)
    PROVE  Inv'
<1> USE DEF fileVars, history
<1> PICK f \in Frame :
        /\ Finds(p, f)
        /\ mRefCount' = [mRefCount EXCEPT ![f] = @ + 1]
        /\ mUsageCount' = [mUsageCount EXCEPT ![f] = @ + 1]
        /\ held' = [held EXCEPT ![<<p, f>>] = @ + 1]
  BY DEF PinHit, Pinned
<1>1. mPageNum[f] = p /\ InUse(f)
  BY FindsFrameOfPage, Pages DEF PinHit, Inv, InUse
<1>2. UNCHANGED <<file, size, mPageNum, mDirty, mppBufData, mppHash, freed, pc,
                  latest, pending, unread, excused>> /\ answer' = "kOK"
  BY DEF PinHit
<1>3. TypeOK'
  BY <1>2 DEF Inv, TypeOK
<1>4. ChainsLead' /\ FramesLinked' /\ OneFrame'
  BY <1>2, SameChains DEF Inv
<1>5. Counted'
  <2> SUFFICES ASSUME NEW g \in Frame
               PROVE  /\ mUsageCount'[g] = mRefCount'[g]
                      /\ mPageNum[g] # kInvalidPageNum =>
                            mRefCount'[g] = held'[<<mPageNum[g], g>>] + LeftBehind(g)
                      /\ mPageNum[g] = kInvalidPageNum => mRefCount'[g] = 0 /\ g \notin unread
                      /\ \A q \in Page : held'[<<q, g>>] > 0 => mPageNum[g] = q
    BY <1>2 DEF Counted, InUse, LeftBehind
  <2>1. /\ mRefCount \in [Frame -> Nat] /\ mUsageCount \in [Frame -> Nat]
        /\ held \in [Page \X Frame -> Nat]
        /\ mPageNum[g] \in Page \cup {kInvalidPageNum}
    BY DEF Inv, TypeOK
  <2>2. CASE g = f
    BY <1>1, <2>1, <2>2, Pages DEF Inv, Counted, InUse, LeftBehind
  <2>3. CASE g # f
    BY <2>1, <2>3 DEF Inv, Counted, InUse, LeftBehind
  <2> QED
    BY <2>2, <2>3
<1>6. FrameHasPage' /\ EmptyFile'
  BY <1>2 DEF Inv, FrameHasPage, EmptyFile, InUse
<1>7. PutIsInFile'
  <2>1. \A g \in Frame : mRefCount[g] > 0 => mRefCount'[g] > 0
    BY DEF Inv, TypeOK
  <2> QED
    BY <1>2, <2>1 DEF Inv, PutIsInFile
<1> QED
  BY <1>3, <1>4, <1>5, <1>6, <1>7 DEF Inv

LEMMA NewPageInv ==
    ASSUME Inv, NewPage
    PROVE  Inv'
<1> USE DEF fileVars, descs
<1>1. UNCHANGED <<mPageNum, mRefCount, mUsageCount, mDirty, mppBufData, mppHash, freed, pc,
                  held, latest, pending, unread>>
  BY DEF NewPage
<1>2. /\ file' = [file EXCEPT ![0] = Zero]
      /\ size' = IF size = 0 THEN 1 ELSE size
      /\ excused' = IF size = 0 THEN excused ELSE excused \cup {0}
      /\ answer' \in {"kOK", "kIOError"}
  BY DEF NewPage
<1>3. 0 \in Page /\ size \in 0 .. MaxPage + 1 /\ file \in [Page -> Content] /\ Zero \in Content
  BY BufAssumption DEF Inv, TypeOK, Page
<1>4. TypeOK'
  <2>1. file' \in [Page -> Content] /\ size' \in 0 .. MaxPage + 1 /\ excused' \subseteq Page
    BY <1>2, <1>3, BufAssumption DEF Inv, TypeOK
  <2> QED
    BY <1>1, <1>2, <2>1 DEF Inv, TypeOK
<1>5. ChainsLead' /\ FramesLinked' /\ OneFrame'
  BY <1>1, SameChains DEF Inv
<1>6. Counted'
  BY <1>1 DEF Inv, Counted, InUse, LeftBehind
<1>7. FrameHasPage'
  BY <1>1, <1>2 DEF Inv, FrameHasPage, InUse
<1>8. EmptyFile'
  BY <1>2, <1>3 DEF EmptyFile
<1>9. PutIsInFile'
  <2> SUFFICES ASSUME NEW p \in Page
               PROVE  \/ file'[p] = latest[p]
                      \/ p \in excused'
                      \/ \E f \in Frame : f \in pending /\ mPageNum[f] = p /\ mRefCount[f] > 0
    BY <1>1 DEF PutIsInFile
  <2>1. \/ file[p] = latest[p]
        \/ p \in excused
        \/ \E f \in Frame : f \in pending /\ mPageNum[f] = p /\ mRefCount[f] > 0
    BY DEF Inv, PutIsInFile
  <2>2. file'[p] = file[p] \/ p = 0
    BY <1>2, <1>3
  <2>3. p = 0 => (size # 0 /\ p \in excused') \/ (file[p] = Zero /\ file'[p] = Zero)
    BY <1>2, <1>3 DEF Inv, EmptyFile
  <2> QED
    BY <1>2, <2>1, <2>2, <2>3
<1> QED
  BY <1>4, <1>5, <1>6, <1>7, <1>8, <1>9 DEF Inv

LEMMA UnpinPageInv ==
    ASSUME Inv, NEW p \in Page, NEW f \in Frame, NEW dirty \in BOOLEAN, UnpinPage(p, f, dirty)
    PROVE  Inv'
<1> USE DEF fileVars
<1> PICK g \in Frame :
        /\ Finds(p, g)
        /\ Changed(p, g, dirty)
        /\ mDirty' = [mDirty EXCEPT ![g] = dirty]
        /\ mRefCount' = [mRefCount EXCEPT ![g] = @ - 1]
        /\ mUsageCount' = [mUsageCount EXCEPT ![g] = @ - 1]
        /\ IF Writes(g, dirty) THEN WritePage(p, g) \/ WriteFails(p, g)
                               ELSE NoWrite(p, g, dirty)
  BY DEF UnpinPage
<1>1. /\ held[<<p, f>>] > 0
      /\ Hash(p) \notin freed
      /\ held' = [held EXCEPT ![<<p, f>>] = @ - 1]
      /\ UNCHANGED <<mPageNum, mppHash, freed, pc, unread>>
      /\ answer' = "kOK"
  BY DEF UnpinPage
<1>2. g = f
  BY <1>1, FindsPinnedFrame
<1>3. mPageNum[f] = p /\ InUse(f) /\ \A h \in Frame : mPageNum[h] = p => h = f
  BY <1>1, Pages DEF Inv, Counted, OneFrame, InUse
<1>4. /\ mRefCount \in [Frame -> Nat] /\ mUsageCount \in [Frame -> Nat]
      /\ held \in [Page \X Frame -> Nat]
      /\ file \in [Page -> Content] /\ latest \in [Page -> Content]
      /\ mppBufData \in [Frame -> Content]
      /\ size \in 0 .. MaxPage + 1
      /\ pending \subseteq Frame /\ excused \subseteq Page
      /\ \A h \in Frame : mPageNum[h] \in Page \cup {kInvalidPageNum}
  BY DEF Inv, TypeOK
<1>5. /\ mRefCount[f] = held[<<p, f>>] + LeftBehind(f)
      /\ mUsageCount[f] = mRefCount[f]
      /\ mRefCount[f] > 0
  BY <1>1, <1>3, <1>4 DEF Inv, Counted, LeftBehind
<1>6. PICK c \in Content :
        IF dirty THEN /\ mppBufData' = [mppBufData EXCEPT ![f] = c]
                      /\ latest' = [latest EXCEPT ![p] = c]
                 ELSE UNCHANGED <<mppBufData, latest>>
  BY <1>2, BufAssumption DEF Changed
<1>7. mppBufData' \in [Frame -> Content] /\ latest' \in [Page -> Content]
  BY <1>4, <1>6
<1>8. \/ /\ dirty /\ mRefCount[f] = 1
         /\ file' = [file EXCEPT ![p] = mppBufData'[f]]
         /\ size' = IF p < size THEN size ELSE p + 1
         /\ pending' = pending \ {f}
         /\ excused' = excused \ {p}
      \/ /\ dirty /\ mRefCount[f] = 1
         /\ pending' = pending \ {f}
         /\ excused' = excused \cup {p}
         /\ UNCHANGED <<file, size>>
      \/ /\ ~ (dirty /\ mRefCount[f] = 1)
         /\ pending' = IF dirty THEN pending \cup {f} ELSE pending
         /\ excused' = IF mRefCount[f] = 1 /\ f \in pending THEN excused \cup {p} ELSE excused
         /\ UNCHANGED <<file, size>>
  BY <1>2 DEF Writes, WritePage, WriteFails, NoWrite
<1>9. TypeOK'
  <2>1. mRefCount' \in [Frame -> Nat] /\ mUsageCount' \in [Frame -> Nat]
    BY <1>2, <1>4, <1>5
  <2>2. held' \in [Page \X Frame -> Nat]
    BY <1>1, <1>4
  <2>3. file' \in [Page -> Content] /\ size' \in 0 .. MaxPage + 1
    BY <1>4, <1>7, <1>8, BufAssumption DEF Page
  <2>4. pending' \subseteq Frame /\ excused' \subseteq Page
    BY <1>4, <1>8
  <2>5. mDirty' \in [Frame -> BOOLEAN]
    BY DEF Inv, TypeOK
  <2> QED
    BY <1>1, <1>7, <2>1, <2>2, <2>3, <2>4, <2>5 DEF Inv, TypeOK
<1>10. ChainsLead' /\ FramesLinked' /\ OneFrame'
  BY <1>1, SameChains DEF Inv
<1>11. Counted'
  <2> SUFFICES ASSUME NEW h \in Frame
               PROVE  /\ mUsageCount'[h] = mRefCount'[h]
                      /\ mPageNum[h] # kInvalidPageNum =>
                            mRefCount'[h] = held'[<<mPageNum[h], h>>] + LeftBehind(h)
                      /\ mPageNum[h] = kInvalidPageNum => mRefCount'[h] = 0 /\ h \notin unread
                      /\ \A q \in Page : held'[<<q, h>>] > 0 => mPageNum[h] = q
    BY <1>1 DEF Counted, InUse, LeftBehind
  <2>1. CASE h = f
    BY <1>1, <1>2, <1>3, <1>4, <1>5, <2>1, Pages DEF Inv, Counted, InUse, LeftBehind
  <2>2. CASE h # f
    BY <1>1, <1>2, <1>4, <2>2 DEF Inv, Counted, InUse, LeftBehind
  <2> QED
    BY <2>1, <2>2
<1>12. FrameHasPage'
  <2> SUFFICES ASSUME NEW h \in Frame, InUse(h), h \notin unread, mPageNum[h] \notin excused'
               PROVE  mppBufData'[h] = latest'[mPageNum[h]]
    BY <1>1 DEF FrameHasPage, InUse
  <2>1. mPageNum[h] \in Page
    BY <1>4 DEF InUse
  <2>2. mPageNum[h] \in excused => h = f /\ dirty
    BY <1>3, <1>8
  <2>3. CASE h = f /\ dirty
    BY <1>3, <1>4, <1>6, <2>3
  <2>4. CASE ~ (h = f /\ dirty)
    <3>1. mppBufData[h] = latest[mPageNum[h]]
      BY <2>2, <2>4 DEF Inv, FrameHasPage
    <3> QED
      BY <1>3, <1>4, <1>6, <2>1, <2>4, <3>1
  <2> QED
    BY <2>3, <2>4
<1>13. EmptyFile'
  BY <1>4, <1>8, Pages DEF Inv, EmptyFile
<1>14. PutIsInFile'
  <2> SUFFICES ASSUME NEW q \in Page
               PROVE  \/ file'[q] = latest'[q]
                      \/ q \in excused'
                      \/ \E h \in Frame : h \in pending' /\ mPageNum[h] = q /\ mRefCount'[h] > 0
    BY <1>1 DEF PutIsInFile
  <2>1. \/ file[q] = latest[q]
        \/ q \in excused
        \/ \E h \in Frame : h \in pending /\ mPageNum[h] = q /\ mRefCount[h] > 0
    BY DEF Inv, PutIsInFile
  <2>2. CASE q # p
    <3>1. file'[q] = file[q] /\ latest'[q] = latest[q] /\ (q \in excused => q \in excused')
      BY <1>4, <1>6, <1>8, <2>2
    <3>2. \A h \in Frame : h \in pending /\ mPageNum[h] = q /\ mRefCount[h] > 0
              => h \in pending' /\ mRefCount'[h] > 0
      BY <1>2, <1>3, <1>4, <1>8, <2>2
    <3> QED
      BY <2>1, <3>1, <3>2
  <2>3. CASE q = p /\ dirty /\ mRefCount[f] = 1
    BY <1>4, <1>6, <1>7, <1>8, <2>3
  <2>4. CASE q = p /\ dirty /\ mRefCount[f] # 1
    <3>1. f \in pending' /\ mRefCount'[f] > 0
      BY <1>2, <1>4, <1>5, <1>8, <2>4
    <3> QED
      BY <1>3, <2>4, <3>1
  <2>5. CASE q = p /\ ~ dirty
    <3>1. file' = file /\ latest' = latest /\ pending' = pending /\ excused \subseteq excused'
      BY <1>6, <1>8, <2>5
    <3>2. f \in pending => p \in excused' \/ mRefCount'[f] > 0
      BY <1>2, <1>4, <1>5, <1>8, <2>5
    <3> QED
      BY <1>3, <2>1, <2>5, <3>1, <3>2
  <2> QED
    BY <2>2, <2>3, <2>4, <2>5
<1> QED
  BY <1>9, <1>10, <1>11, <1>12, <1>13, <1>14 DEF Inv

(* The frame of a victim is nobody's: no pin, no entry that leads to it    *)
(* once Removed has taken it out of its chain.                             *)
LEMMA PinMissChains ==
    ASSUME Inv, NEW p \in Page, NEW f \in Frame, PinMiss(p, f)
    PROVE  /\ mppHash' \in [Frame -> Seq(Entry)]
           /\ ChainsLead' /\ FramesLinked' /\ OneFrame'
<1>1. /\ Hash(p) \notin freed
      /\ InUse(f) => Hash(mPageNum[f]) \notin freed
      /\ Hash(p) \notin freed'
      /\ freed' = FreedBy(f)
      /\ mppHash' = [Removed(f) EXCEPT ![Hash(p)] = Inserted(@, p, f)]
      /\ mPageNum' = [mPageNum EXCEPT ![f] = p]
      /\ Misses(p)
  BY DEF PinMiss
<1>2. /\ mppHash \in [Frame -> Seq(Entry)]
      /\ mPageNum \in [Frame -> Page \cup {kInvalidPageNum}]
      /\ freed \subseteq Frame
      /\ Hash(p) \in Frame
  BY HashInFrame DEF Inv, TypeOK
<1>3. \A g \in Frame : mPageNum[g] # p
  BY <1>1, MissesAllFrames DEF Inv
<1>4. freed \subseteq freed'
  BY <1>1 DEF FreedBy
(* What Removed leaves, bucket by bucket.                                  *)
<1>5. /\ Removed(f) \in [Frame -> Seq(Entry)]
      /\ \A h \in Frame \ freed' :
            /\ Distinct(Removed(f)[h])
            /\ \A i \in DOMAIN Removed(f)[h] :
                  /\ Removed(f)[h][i].bufNum # f
                  /\ \E k \in DOMAIN mppHash[h] : Removed(f)[h][i] = mppHash[h][k]
            /\ \A k \in DOMAIN mppHash[h] : mppHash[h][k].bufNum # f =>
                  \E i \in DOMAIN Removed(f)[h] : Removed(f)[h][i] = mppHash[h][k]
  <2>1. ASSUME NEW h \in Frame \ freed', NEW k \in DOMAIN mppHash[h],
               mppHash[h][k].bufNum = f
        PROVE  InUse(f) /\ h = Hash(mPageNum[f])
    <3>1. h \notin freed
      BY <1>4
    <3>2. mppHash[h][k] \in Entry
      BY <1>2
    <3> QED
      BY <2>1, <3>1, <3>2, Pages DEF Inv, ChainsLead, InUse, Entry
  <2>2. CASE ~ InUse(f) \/ IsHead(f)
    <3>1. Removed(f) = mppHash
      BY <2>2 DEF Removed
    <3>2. ASSUME NEW h \in Frame \ freed', NEW k \in DOMAIN mppHash[h]
          PROVE  mppHash[h][k].bufNum # f
      BY <1>1, <2>1, <2>2, <3>2 DEF FreedBy
    <3>3. \A h \in Frame \ freed' : Distinct(mppHash[h])
      BY <1>4 DEF Inv, ChainsLead
    <3> QED
      BY <1>2, <3>1, <3>2, <3>3
  <2>3. CASE InUse(f) /\ ~ IsHead(f)
    <3> DEFINE b == Hash(mPageNum[f])
    <3>1. Removed(f) = [mppHash EXCEPT ![b] = Unlinked(@, f)] /\ freed' = freed
      BY <1>1, <2>3 DEF Removed, FreedBy
    <3>2. b \in Frame \ freed
      BY <1>1, <1>2, <2>3, HashInFrame DEF InUse
    <3>3. mppHash[b] \in Seq(Entry) /\ Distinct(mppHash[b])
      BY <1>2, <3>2 DEF Inv, ChainsLead
    <3> DEFINE rest == Unlinked(mppHash[b], f)
    <3>4. /\ rest \in Seq(Entry)
          /\ Distinct(rest)
          /\ \A i \in DOMAIN rest :
                 /\ rest[i].bufNum # f
                 /\ \E k \in DOMAIN mppHash[b] : rest[i] = mppHash[b][k]
          /\ \A k \in DOMAIN mppHash[b] : mppHash[b][k].bufNum # f =>
                 \E i \in DOMAIN rest : rest[i] = mppHash[b][k]
      BY <3>3, UnlinkedChain
    <3>5. Removed(f) = [mppHash EXCEPT ![b] = rest]
      BY <3>1
    <3> HIDE DEF b, rest
    <3>6. Removed(f) \in [Frame -> Seq(Entry)] /\ Removed(f)[b] = rest
      BY <1>2, <3>2, <3>4, <3>5
    <3>7. ASSUME NEW h \in Frame \ freed', h # b
          PROVE  /\ Removed(f)[h] = mppHash[h] /\ Distinct(mppHash[h])
                 /\ \A k \in DOMAIN mppHash[h] : mppHash[h][k].bufNum # f
      <4>1. Removed(f)[h] = mppHash[h]
        BY <1>2, <3>5, <3>7
      <4>2. Distinct(mppHash[h])
        BY <1>4 DEF Inv, ChainsLead
      <4> QED
        BY <2>1, <3>7, <4>1, <4>2 DEF b
    <3>8. ASSUME NEW h \in Frame \ freed'
          PROVE  /\ Distinct(Removed(f)[h])
                 /\ \A i \in DOMAIN Removed(f)[h] :
                       /\ Removed(f)[h][i].bufNum # f
                       /\ \E k \in DOMAIN mppHash[h] : Removed(f)[h][i] = mppHash[h][k]
                 /\ \A k \in DOMAIN mppHash[h] : mppHash[h][k].bufNum # f =>
                       \E i \in DOMAIN Removed(f)[h] : Removed(f)[h][i] = mppHash[h][k]
      <4>1. CASE h = b
        BY <3>4, <3>6, <4>1
      <4>2. CASE h # b
        BY <3>7, <4>2
      <4> QED
        BY <4>1, <4>2
    <3> QED
      BY <3>6, <3>8
  <2> QED
    BY <2>2, <2>3
<1> DEFINE chain == Removed(f)[Hash(p)]
           longer == Inserted(chain, p, f)
<1>6. /\ chain \in Seq(Entry) /\ Distinct(chain)
      /\ \A i \in DOMAIN chain : chain[i].bufNum # f
  BY <1>1, <1>2, <1>5
<1>7. /\ longer \in Seq(Entry)
      /\ Distinct(longer)
      /\ \A i \in DOMAIN longer :
             \/ longer[i] = [pageNum |-> p, bufNum |-> f]
             \/ \E k \in DOMAIN chain : longer[i] = chain[k]
      /\ \E i \in DOMAIN longer : longer[i] = [pageNum |-> p, bufNum |-> f]
      /\ \A k \in DOMAIN chain : \E i \in DOMAIN longer : longer[i] = chain[k]
  BY <1>6, InsertedChain
<1>8. /\ mppHash' = [Removed(f) EXCEPT ![Hash(p)] = longer]
      /\ mppHash'[Hash(p)] = longer
      /\ \A h \in Frame : h # Hash(p) => mppHash'[h] = Removed(f)[h]
      /\ mppHash' \in [Frame -> Seq(Entry)]
  BY <1>1, <1>2, <1>5, <1>7
<1> HIDE DEF longer
(* An entry in a chain is the new one or one that was there before.        *)
<1>9. ASSUME NEW h \in Frame \ freed', NEW i \in DOMAIN mppHash'[h]
      PROVE  \/ h = Hash(p) /\ mppHash'[h][i] = [pageNum |-> p, bufNum |-> f]
             \/ \E k \in DOMAIN mppHash[h] : /\ mppHash'[h][i] = mppHash[h][k]
                                             /\ mppHash[h][k].bufNum # f
  <2>1. \A j \in DOMAIN Removed(f)[h] :
            \E k \in DOMAIN mppHash[h] : /\ Removed(f)[h][j] = mppHash[h][k]
                                         /\ mppHash[h][k].bufNum # f
    BY <1>5
  <2>2. CASE h = Hash(p)
    BY <1>7, <1>8, <1>9, <2>1, <2>2
  <2>3. CASE h # Hash(p)
    BY <1>8, <1>9, <2>1, <2>3
  <2> QED
    BY <2>2, <2>3
<1>10. ASSUME NEW h \in Frame \ freed', NEW k \in DOMAIN mppHash[h],
              mppHash[h][k].bufNum # f
       PROVE  \E i \in DOMAIN mppHash'[h] : mppHash'[h][i] = mppHash[h][k]
  <2>1. PICK j \in DOMAIN Removed(f)[h] : Removed(f)[h][j] = mppHash[h][k]
    BY <1>5, <1>10
  <2>2. CASE h = Hash(p)
    BY <1>7, <1>8, <2>1, <2>2
  <2>3. CASE h # Hash(p)
    BY <1>8, <2>1, <2>3
  <2> QED
    BY <2>2, <2>3
<1>11. ChainsLead'
  <2> SUFFICES ASSUME NEW h \in Frame \ freed'
               PROVE  /\ Distinct(mppHash'[h])
                      /\ \A i \in DOMAIN mppHash'[h] :
                            /\ Hash(mppHash'[h][i].pageNum) = h
                            /\ mPageNum'[mppHash'[h][i].bufNum] = mppHash'[h][i].pageNum
    BY DEF ChainsLead, Hash, Distinct
  <2>1. Distinct(mppHash'[h])
    BY <1>5, <1>7, <1>8
  <2>2. ASSUME NEW i \in DOMAIN mppHash'[h]
        PROVE  /\ Hash(mppHash'[h][i].pageNum) = h
               /\ mPageNum'[mppHash'[h][i].bufNum] = mppHash'[h][i].pageNum
    <3>1. CASE h = Hash(p) /\ mppHash'[h][i] = [pageNum |-> p, bufNum |-> f]
      BY <1>1, <1>2, <3>1
    <3>2. ASSUME NEW k \in DOMAIN mppHash[h], mppHash'[h][i] = mppHash[h][k],
                 mppHash[h][k].bufNum # f
          PROVE  /\ Hash(mppHash'[h][i].pageNum) = h
                 /\ mPageNum'[mppHash'[h][i].bufNum] = mppHash'[h][i].pageNum
      <4>1. h \notin freed
        BY <1>4
      <4>2. mppHash[h][k].bufNum \in Frame
        <5>1. mppHash[h] \in Seq(Entry)
          BY <1>2
        <5>2. mppHash[h][k] \in Entry
          BY <5>1
        <5> QED
          BY <5>2 DEF Entry
      <4> QED
        BY <1>1, <1>2, <3>2, <4>1, <4>2 DEF Inv, ChainsLead
    <3> QED
      BY <1>9, <3>1, <3>2
  <2> QED
    BY <2>1, <2>2
<1>12. FramesLinked'
  <2> SUFFICES ASSUME NEW g \in Frame, mPageNum'[g] # kInvalidPageNum,
                      Hash(mPageNum'[g]) \notin freed'
               PROVE  \E i \in DOMAIN mppHash'[Hash(mPageNum'[g])] :
                         /\ mppHash'[Hash(mPageNum'[g])][i].pageNum = mPageNum'[g]
                         /\ mppHash'[Hash(mPageNum'[g])][i].bufNum = g
    BY DEF FramesLinked, InUse, Finds, Hash
  <2>1. CASE g = f
    <3>1. mPageNum'[g] = p
      BY <1>1, <1>2, <2>1
    <3> QED
      BY <1>7, <1>8, <2>1, <3>1
  <2>2. CASE g # f
    <3> DEFINE h == Hash(mPageNum[g])
    <3>1. mPageNum'[g] = mPageNum[g] /\ InUse(g)
      BY <1>1, <1>2, <2>2 DEF InUse
    <3>2. h \in Frame \ freed'
      BY <1>2, <3>1, HashInFrame DEF InUse
    <3>3. PICK k \in DOMAIN mppHash[h] :
              mppHash[h][k].pageNum = mPageNum[g] /\ mppHash[h][k].bufNum = g
      BY <1>4, <3>1, <3>2 DEF Inv, FramesLinked, Finds
    <3> HIDE DEF h
    <3>4. \E i \in DOMAIN mppHash'[h] : mppHash'[h][i] = mppHash[h][k]
      BY <1>10, <2>2, <3>2, <3>3
    <3> QED
      BY <3>1, <3>3, <3>4 DEF h
  <2> QED
    BY <2>1, <2>2
<1>13. OneFrame'
  BY <1>1, <1>2, <1>3 DEF Inv, OneFrame, InUse
<1> QED
  BY <1>8, <1>11, <1>12, <1>13

LEMMA PinMissInv ==
    ASSUME Inv, NEW p \in Page, NEW f \in Frame, PinMiss(p, f)
    PROVE  Inv'
<1> USE DEF fileVars
<1>1. /\ Misses(p) /\ Hash(p) \notin freed
      /\ mUsageCount[f] = 0
      /\ freed' = FreedBy(f)
      /\ mPageNum' = [mPageNum EXCEPT ![f] = p]
      /\ mRefCount' = [mRefCount EXCEPT ![f] = 1]
      /\ mUsageCount' = [mUsageCount EXCEPT ![f] = @ + 1]
      /\ mDirty' = [mDirty EXCEPT ![f] = FALSE]
      /\ pending' = pending \ {f}
      /\ UNCHANGED <<file, size, pc, latest, excused>>
  BY DEF PinMiss, PickVictim, Candidate
<1>2. \/ /\ mppBufData' = [mppBufData EXCEPT ![f] = file[p]]
         /\ held' = [held EXCEPT ![<<p, f>>] = @ + 1]
         /\ unread' = unread
         /\ answer' = "kOK"
      \/ /\ \/ mppBufData' = mppBufData
            \/ \E c \in Content : mppBufData' = [mppBufData EXCEPT ![f] = c]
         /\ held' = held
         /\ unread' = unread \cup {f}
         /\ answer' \in {"kEOF", "kIOError"}
  BY DEF PinMiss, ReadPage, ReadFails, Pinned
<1>3. /\ mRefCount \in [Frame -> Nat] /\ mUsageCount \in [Frame -> Nat]
      /\ held \in [Page \X Frame -> Nat]
      /\ file \in [Page -> Content]
      /\ mppBufData \in [Frame -> Content]
      /\ mPageNum \in [Frame -> Page \cup {kInvalidPageNum}]
      /\ freed \subseteq Frame /\ unread \subseteq Frame /\ pending \subseteq Frame
  BY DEF Inv, TypeOK
<1>4. \A g \in Frame : mPageNum[g] # p
  BY <1>1, MissesAllFrames DEF Inv
<1>5. /\ mRefCount[f] = 0 /\ f \notin unread
      /\ \A q \in Page : held[<<q, f>>] = 0
  <2>1. mRefCount[f] = 0
    BY <1>1 DEF Inv, Counted
  <2>2. f \notin unread /\ (InUse(f) => held[<<mPageNum[f], f>>] = 0)
    BY <1>3, <2>1 DEF Inv, Counted, LeftBehind, InUse
  <2>3. ASSUME NEW q \in Page
        PROVE  held[<<q, f>>] = 0
    BY <1>3, <2>2, Pages DEF Inv, Counted, InUse
  <2> QED
    BY <2>1, <2>2, <2>3
<1>6. mppHash' \in [Frame -> Seq(Entry)] /\ ChainsLead' /\ FramesLinked' /\ OneFrame'
  BY PinMissChains
<1>7. TypeOK'
  <2>1. /\ mPageNum' \in [Frame -> Page \cup {kInvalidPageNum}]
        /\ mRefCount' \in [Frame -> Nat] /\ mUsageCount' \in [Frame -> Nat]
    BY <1>1, <1>3
  <2>2. mDirty' \in [Frame -> BOOLEAN]
    BY <1>1 DEF Inv, TypeOK
  <2>3. mppBufData' \in [Frame -> Content] /\ held' \in [Page \X Frame -> Nat]
    BY <1>2, <1>3
  <2>4. unread' \subseteq Frame /\ pending' \subseteq Frame
    BY <1>1, <1>2, <1>3
  <2>5. freed' \subseteq Frame
    BY <1>1, <1>3, HashInFrame DEF FreedBy, IsHead, InUse
  <2>6. answer' \in {"kOK", "kEOF", "kIOError", "none"}
    BY <1>2
  <2> QED
    BY <1>1, <1>6, <2>1, <2>2, <2>3, <2>4, <2>5, <2>6 DEF Inv, TypeOK
<1>8. Counted'
  <2> SUFFICES ASSUME NEW g \in Frame
               PROVE  /\ mUsageCount'[g] = mRefCount'[g]
                      /\ mPageNum'[g] # kInvalidPageNum =>
                            mRefCount'[g] = held'[<<mPageNum'[g], g>>]
                                            + (IF g \in unread' THEN 1 ELSE 0)
                      /\ mPageNum'[g] = kInvalidPageNum => mRefCount'[g] = 0 /\ g \notin unread'
                      /\ \A q \in Page : held'[<<q, g>>] > 0 => mPageNum'[g] = q
    BY DEF Counted, InUse, LeftBehind
  <2>1. CASE g = f
    BY <1>1, <1>2, <1>3, <1>5, <2>1, Pages
  <2>2. CASE g # f
    BY <1>1, <1>2, <1>3, <2>2 DEF Inv, Counted, InUse, LeftBehind
  <2> QED
    BY <2>1, <2>2
<1>9. FrameHasPage'
  <2> SUFFICES ASSUME NEW g \in Frame, mPageNum'[g] # kInvalidPageNum, g \notin unread',
                      mPageNum'[g] \notin excused
               PROVE  mppBufData'[g] = latest[mPageNum'[g]]
    BY <1>1 DEF FrameHasPage, InUse
  <2>1. CASE g = f
    <3>1. mPageNum'[g] = p /\ mppBufData'[g] = file[p]
      BY <1>1, <1>2, <1>3, <2>1
    <3>2. file[p] = latest[p]
      BY <1>4, <3>1 DEF Inv, PutIsInFile
    <3> QED
      BY <3>1, <3>2
  <2>2. CASE g # f
    <3>1. mPageNum'[g] = mPageNum[g] /\ mppBufData'[g] = mppBufData[g] /\ g \notin unread
      BY <1>1, <1>2, <1>3, <2>2
    <3> QED
      BY <3>1 DEF Inv, FrameHasPage, InUse
  <2> QED
    BY <2>1, <2>2
<1>10. EmptyFile'
  BY <1>1 DEF Inv, EmptyFile
<1>11. PutIsInFile'
  <2>1. ASSUME NEW g \in Frame, g \in pending, mRefCount[g] > 0
        PROVE  g \in pending' /\ mPageNum'[g] = mPageNum[g] /\ mRefCount'[g] > 0
    <3>1. g # f
      BY <1>5, <2>1
    <3> QED
      BY <1>1, <1>3, <2>1, <3>1
  <2> QED
    BY <1>1, <2>1 DEF Inv, PutIsInFile
<1> QED
  BY <1>6, <1>7, <1>8, <1>9, <1>10, <1>11 DEF Inv

LEMMA NextInv ==
    ASSUME Inv, [Next]_vars
    PROVE  Inv'
<1>1. ASSUME NEW p \in Page, PinHit(p)
      PROVE  Inv'
  BY <1>1, PinHitInv
<1>2. ASSUME NEW p \in Page, PinLoops(p)
      PROVE  Inv'
  BY <1>2, QuietStep DEF PinLoops
<1>3. ASSUME NEW p \in Page, PinUndefined(p)
      PROVE  Inv'
  BY <1>3, QuietStep DEF PinUndefined
<1>4. ASSUME NEW p \in Page, NEW f \in Frame, PinMiss(p, f)
      PROVE  Inv'
  BY <1>4, PinMissInv
<1>5. ASSUME NEW p \in Page, NEW f \in Frame, NEW dirty \in BOOLEAN, UnpinPage(p, f, dirty)
      PROVE  Inv'
  BY <1>5, UnpinPageInv
<1>6. ASSUME NEW p \in Page, NEW f \in Frame, UnpinUndefined(p, f)
      PROVE  Inv'
  BY <1>6, QuietStep DEF UnpinUndefined
<1>7. CASE NewPage
  BY <1>7, NewPageInv
<1>8. CASE NewPageFails
  <2>1. pc' = pc
    BY <1>8 DEF NewPageFails
  <2>2. pc' \in {"ready", "looping", "undefined"}
    BY <2>1 DEF Inv, TypeOK
  <2> QED
    BY <1>8, <2>2, QuietStep DEF NewPageFails
<1>9. CASE UNCHANGED vars
  <2>1. /\ pc' \in {"ready", "looping", "undefined"}
        /\ answer' \in {"kOK", "kEOF", "kIOError", "none"}
    BY <1>9 DEF Inv, TypeOK, vars
  <2> QED
    BY <1>9, <2>1, QuietStep DEF vars
<1> QED
  BY <1>1, <1>2, <1>3, <1>4, <1>5, <1>6, <1>7, <1>8, <1>9 DEF Next

LEMMA InvCorrect == Spec => []Inv
<1>1. Init => Inv
  BY InitInv
<1>2. Inv /\ [Next]_vars => Inv'
  BY NextInv
<1> QED
  BY <1>1, <1>2, PTL DEF Spec

(***************************************************************************)
(* Theorems                                                                *)
(***************************************************************************)

(* Every variable keeps its type; no count of pins goes below zero.        *)
THEOREM TypeCorrect == Spec => []TypeOK
<1>1. Inv => TypeOK
  BY DEF Inv
<1> QED
  BY <1>1, InvCorrect, PTL

(* A frame a caller has is not taken for another page, its counts are the  *)
(* pins there are, and a look-up leads to it, whatever calls of the file   *)
(* fail, until an entry is used that was deleted.                          *)
THEOREM PinnedFramesKept == Spec => []PinnedFrameKept
<1>1. ASSUME Inv
      PROVE  PinnedFrameKept
  <2> SUFFICES ASSUME NEW p \in Page, NEW f \in Frame, held[<<p, f>>] > 0
               PROVE  /\ mPageNum[f] = p
                      /\ mRefCount[f] = held[<<p, f>>] + LeftBehind(f)
                      /\ mUsageCount[f] = mRefCount[f]
                      /\ Hash(p) \in freed \/ Finds(p, f)
    BY DEF PinnedFrameKept
  <2>1. mPageNum[f] = p /\ InUse(f)
    BY <1>1, Pages DEF Inv, Counted, InUse
  <2> QED
    BY <1>1, <2>1 DEF Inv, Counted, FramesLinked
<1> QED
  BY <1>1, InvCorrect, PTL

(* What a caller put into a page reaches the file, but for the three ways  *)
(* the code loses it.                                                      *)
THEOREM PutAlwaysInFile == Spec => []PutIsInFile
<1>1. Inv => PutIsInFile
  BY DEF Inv
<1> QED
  BY <1>1, InvCorrect, PTL

(* A caller sees what was last put into the page it has pinned.            *)
THEOREM PinAlwaysSeesPut == Spec => []PinSeesPut
<1>1. ASSUME Inv
      PROVE  PinSeesPut
  <2> SUFFICES ASSUME NEW p \in Page, NEW f \in Frame,
                      held[<<p, f>>] > 0, f \notin unread, p \notin excused
               PROVE  mppBufData[f] = latest[p]
    BY DEF PinSeesPut
  <2>1. mPageNum[f] = p /\ InUse(f)
    BY <1>1, Pages DEF Inv, Counted, InUse
  <2> QED
    BY <1>1, <2>1 DEF Inv, FrameHasPage
<1> QED
  BY <1>1, InvCorrect, PTL
=============================================================================
