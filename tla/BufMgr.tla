------------------------------- MODULE BufMgr -------------------------------
(***************************************************************************)
(* The buffer manager of the storage engine that came before Berkeley DB   *)
(* (Storage/Buffer/BufMgr.cpp, PageProxy.cpp, VFS/WinFile.cpp): pages of a *)
(* file in a fixed number of frames, found by a hash table with chains.    *)
(*                                                                         *)
(* An action is a call of PinPage, UnpinPage or NewPage from beginning to  *)
(* end, since one thread makes them. PDASSERT is that of a release build.  *)
(* A caller that has pinned a page to change it changes it just before it  *)
(* unpins it with inDirty; nobody can tell the difference. Operators whose *)
(* names begin with that of the next one are mistakes to be tried in its   *)
(* place.                                                                  *)
(***************************************************************************)
EXTENDS Integers, Sequences, SequencesExt

CONSTANTS
    BufCount,   \* inBufCount
    MaxPage,    \* the last page anybody asks for
    Content,    \* what a page may hold
    Zero,       \* all zeros
    Files,      \* the files a BufMgr may be made for, each as its pages
    Faults,     \* the calls of File that may fail
    MaxPins     \* how many pins callers hold at most

FaultKind == {"read", "write", "append", "size"}

ASSUME BufAssumption ==
    /\ BufCount \in Nat \ {0}
    /\ MaxPage \in Nat
    /\ Zero \in Content
    /\ \A s \in Files : s \in Seq(Content) /\ Len(s) <= MaxPage + 1
    /\ Faults \subseteq FaultKind
    /\ MaxPins \in Nat

Frame == 0 .. BufCount - 1
Page  == 0 .. MaxPage

kInvalidPageNum == -1

VARIABLES
    \* the file
    file,           \* its pages
    size,           \* how many there are
    \* the descriptors of the frames; mBufNum is set when mPageNum is
    mPageNum, mRefCount, mUsageCount, mDirty,
    mppBufData,     \* the frames
    mppHash,        \* the chain of each bucket of the hash table
    freed,          \* buckets that point to an entry that was deleted
    \* the callers
    pc,             \* "looping" in a call, or "undefined" after it
    answer,
    held,           \* the pins they have, by page and frame
    \* history
    latest,         \* what was last put into each page
    pending,        \* frames changed and not yet written
    unread,         \* frames whose page could not be read
    excused         \* pages of which the file has lost what was put

fileVars == <<file, size>>
descs    == <<mPageNum, mRefCount, mUsageCount, mDirty>>
history  == <<latest, pending, unread, excused>>
vars == <<fileVars, descs, mppBufData, mppHash, freed, pc, answer, held, history>>

(***************************************************************************)
(* BufHashTable                                                            *)
(***************************************************************************)

Hash(p) == p % BufCount

Finds(p, f) ==
    \E i \in DOMAIN mppHash[Hash(p)] :
        mppHash[Hash(p)][i].pageNum = p /\ mppHash[Hash(p)][i].bufNum = f

Misses(p) ==
    \A i \in DOMAIN mppHash[Hash(p)] : mppHash[Hash(p)][i].pageNum # p

InUse(f) == mPageNum[f] # kInvalidPageNum

IsHead(f) ==
    LET chain == mppHash[Hash(mPageNum[f])]
    IN  InUse(f) /\ chain # <<>> /\ chain[1].bufNum = f

Unlinked(chain, f) ==
    IF \E i \in DOMAIN chain : chain[i].bufNum = f
    THEN RemoveAt(chain, CHOOSE i \in DOMAIN chain : chain[i].bufNum = f)
    ELSE chain

RemovedNot(f) == mppHash

(* The entry of the frame goes out of its chain, unless it is the first    *)
(* one: then it is its own successor that is set, and the bucket goes on   *)
(* pointing to the entry, which is deleted.                                *)
Removed(f) ==
    IF ~ InUse(f) \/ IsHead(f) THEN mppHash
    ELSE [mppHash EXCEPT ![Hash(mPageNum[f])] = Unlinked(@, f)]

FreedBy(f) == IF IsHead(f) THEN freed \cup {Hash(mPageNum[f])} ELSE freed

Inserted(chain, p, f) ==
    IF \E i \in DOMAIN chain : chain[i].bufNum = f THEN chain
    ELSE Append(chain, [pageNum |-> p, bufNum |-> f])

(***************************************************************************)
(* Replacer                                                                *)
(***************************************************************************)

CandidateInUse(f) == ~ mDirty[f]
Candidate(f) == ~ mDirty[f] /\ mUsageCount[f] = 0

PickVictim(f) == Candidate(f) /\ \A g \in Frame : g < f => ~ Candidate(g)

(* A dirty frame before the one to be picked: PickVictim goes into a loop  *)
(* that nothing ends.                                                      *)
NeverPicks ==
    \E g \in Frame : mDirty[g] /\ \A f \in Frame : f < g => ~ Candidate(f)

(***************************************************************************)
(* PinPage                                                                 *)
(***************************************************************************)

MayPin == FoldFunction(+, 0, held) < MaxPins

Pinned(p, f) == held' = [held EXCEPT ![<<p, f>>] = @ + 1]

PinHit(p) ==
    /\ pc = "ready"
    /\ MayPin
    /\ Hash(p) \notin freed
    /\ \E f \in Frame :
        /\ Finds(p, f)
        /\ mRefCount' = [mRefCount EXCEPT ![f] = @ + 1]
        /\ mUsageCount' = [mUsageCount EXCEPT ![f] = @ + 1]
        /\ Pinned(p, f)
    /\ answer' = "kOK"
    /\ UNCHANGED <<fileVars, mPageNum, mDirty, mppBufData, mppHash, freed, pc, history>>

ReadPage(p, f) ==
    /\ p < size
    /\ mppBufData' = [mppBufData EXCEPT ![f] = file[p]]
    /\ answer' = "kOK"
    /\ Pinned(p, f)
    /\ unread' = unread

(* The caller is told, so it holds no pin; the frame keeps one.            *)
ReadFails(p, f) ==
    /\ \/ p >= size /\ answer' = "kEOF" /\ mppBufData' = mppBufData
       \/ /\ "read" \in Faults
          /\ answer' = "kIOError"
          /\ \E c \in Content : mppBufData' = [mppBufData EXCEPT ![f] = c]
    /\ unread' = unread \cup {f}
    /\ UNCHANGED held

(* A victim is clean, so that the branch that writes it is never taken.    *)
PinMiss(p, f) ==
    /\ pc = "ready"
    /\ MayPin
    /\ Hash(p) \notin freed
    /\ Misses(p)
    /\ PickVictim(f)
    /\ ~ NeverPicks
    /\ InUse(f) => Hash(mPageNum[f]) \notin freed
    /\ Hash(p) \notin FreedBy(f)
    /\ mppHash' = [Removed(f) EXCEPT ![Hash(p)] = Inserted(@, p, f)]
    /\ freed' = FreedBy(f)
    /\ ReadPage(p, f) \/ ReadFails(p, f)
    /\ mPageNum' = [mPageNum EXCEPT ![f] = p]
    /\ mRefCount' = [mRefCount EXCEPT ![f] = 1]
    /\ mDirty' = [mDirty EXCEPT ![f] = FALSE]
    /\ mUsageCount' = [mUsageCount EXCEPT ![f] = @ + 1]
    /\ pending' = pending \ {f}
    /\ UNCHANGED <<fileVars, pc, latest, excused>>

PinLoops(p) ==
    /\ pc = "ready"
    /\ Hash(p) \notin freed
    /\ Misses(p)
    /\ NeverPicks
    /\ pc' = "looping"
    /\ answer' = "none"
    /\ UNCHANGED <<fileVars, descs, mppBufData, mppHash, freed, held, history>>

(* An entry is used that was deleted, or the frame before the first one.   *)
PinUndefined(p) ==
    /\ pc = "ready"
    /\ \/ Hash(p) \in freed
       \/ /\ Misses(p)
          /\ ~ NeverPicks
          /\ \A f \in Frame : PickVictim(f) =>
                \/ InUse(f) /\ Hash(mPageNum[f]) \in freed
                \/ Hash(p) \in FreedBy(f)
    /\ pc' = "undefined"
    /\ answer' = "none"
    /\ UNCHANGED <<fileVars, descs, mppBufData, mppHash, freed, held, history>>

(***************************************************************************)
(* UnpinPage                                                               *)
(***************************************************************************)

Changed(p, f, dirty) ==
    IF dirty
    THEN \E c \in Content :
            /\ mppBufData' = [mppBufData EXCEPT ![f] = c]
            /\ latest' = [latest EXCEPT ![p] = c]
    ELSE UNCHANGED <<mppBufData, latest>>

WritesNever(f, dirty) == FALSE
Writes(f, dirty) == mRefCount[f] = 1 /\ dirty

WritePageAppending(p, f) ==
    /\ file' = [file EXCEPT ![p] = mppBufData'[f]]
    /\ size' = size + 1
    /\ pending' = pending \ {f}
    /\ excused' = excused \ {p}

WritePage(p, f) ==
    /\ file' = [file EXCEPT ![p] = mppBufData'[f]]
    /\ size' = IF p < size THEN size ELSE p + 1
    /\ pending' = pending \ {f}
    /\ excused' = excused \ {p}

(* Nobody is told, and nothing tries again.                                *)
WriteFails(p, f) ==
    /\ "write" \in Faults
    /\ pending' = pending \ {f}
    /\ excused' = excused \cup {p}
    /\ UNCHANGED fileVars

(* What was changed while the page had another pin waits for the last one  *)
(* to go, and is not written if that is given back as clean.               *)
NoWrite(p, f, dirty) ==
    /\ pending' = IF dirty THEN pending \cup {f} ELSE pending
    /\ excused' = IF mRefCount[f] = 1 /\ f \in pending THEN excused \cup {p} ELSE excused
    /\ UNCHANGED fileVars

UnpinPage(p, f, dirty) ==
    /\ pc = "ready"
    /\ held[<<p, f>>] > 0
    /\ held' = [held EXCEPT ![<<p, f>>] = @ - 1]
    /\ Hash(p) \notin freed
    /\ \E g \in Frame :
        /\ Finds(p, g)
        /\ Changed(p, g, dirty)
        /\ mDirty' = [mDirty EXCEPT ![g] = dirty]
        /\ mRefCount' = [mRefCount EXCEPT ![g] = @ - 1]
        /\ mUsageCount' = [mUsageCount EXCEPT ![g] = @ - 1]
        /\ IF Writes(g, dirty) THEN WritePage(p, g) \/ WriteFails(p, g)
                               ELSE NoWrite(p, g, dirty)
    /\ answer' = "kOK"
    /\ UNCHANGED <<mPageNum, mppHash, freed, pc, unread>>

UnpinUndefined(p, f) ==
    /\ pc = "ready"
    /\ held[<<p, f>>] > 0
    /\ Hash(p) \in freed \/ Misses(p)
    /\ pc' = "undefined"
    /\ answer' = "none"
    /\ UNCHANGED <<fileVars, descs, mppBufData, mppHash, freed, held, history>>

(***************************************************************************)
(* NewPage                                                                 *)
(***************************************************************************)

(* WinFile::Append goes to the beginning of the file, not to the end: what *)
(* it writes is page 0. The number it gives to the new page is left out:   *)
(* it comes from the size of the file before what stdio holds is flushed.  *)
NewPage ==
    /\ pc = "ready"
    /\ file' = [file EXCEPT ![0] = Zero]
    /\ size' = IF size = 0 THEN 1 ELSE size
    /\ excused' = IF size = 0 THEN excused ELSE excused \cup {0}
    /\ \/ answer' = "kOK"
       \/ "size" \in Faults /\ answer' = "kIOError"
    /\ UNCHANGED <<descs, mppBufData, mppHash, freed, pc, held, latest, pending, unread>>

NewPageFails ==
    /\ pc = "ready"
    /\ "append" \in Faults
    /\ answer' = "kIOError"
    /\ UNCHANGED <<fileVars, descs, mppBufData, mppHash, freed, pc, held, history>>

(***************************************************************************)
(* Specification                                                           *)
(***************************************************************************)

Init ==
    /\ \E s \in Files :
        /\ size = Len(s)
        /\ file = [p \in Page |-> IF p < Len(s) THEN s[p + 1] ELSE Zero]
    /\ mPageNum = [f \in Frame |-> kInvalidPageNum]
    /\ mRefCount = [f \in Frame |-> 0]
    /\ mUsageCount = [f \in Frame |-> 0]
    /\ mDirty = [f \in Frame |-> FALSE]
    /\ mppBufData \in [Frame -> Content]
    /\ mppHash = [h \in Frame |-> <<>>]
    /\ freed = {}
    /\ pc = "ready"
    /\ answer = "kOK"
    /\ held = [x \in Page \X Frame |-> 0]
    /\ latest = file
    /\ pending = {}
    /\ unread = {}
    /\ excused = {}

Next ==
    \/ \E p \in Page : PinHit(p) \/ PinLoops(p) \/ PinUndefined(p)
    \/ \E p \in Page, f \in Frame : PinMiss(p, f)
    \/ \E p \in Page, f \in Frame, dirty \in BOOLEAN : UnpinPage(p, f, dirty)
    \/ \E p \in Page, f \in Frame : UnpinUndefined(p, f)
    \/ NewPage \/ NewPageFails

Spec == Init /\ [][Next]_vars

(***************************************************************************)
(* Properties                                                              *)
(***************************************************************************)

Entry == [pageNum : Page, bufNum : Frame]

(* What each variable holds.                                               *)
TypeOK ==
    /\ file \in [Page -> Content]
    /\ size \in 0 .. MaxPage + 1
    /\ mPageNum \in [Frame -> Page \cup {kInvalidPageNum}]
    /\ mRefCount \in [Frame -> Nat]
    /\ mUsageCount \in [Frame -> Nat]
    /\ mDirty \in [Frame -> BOOLEAN]
    /\ mppBufData \in [Frame -> Content]
    /\ mppHash \in [Frame -> Seq(Entry)]
    /\ freed \subseteq Frame
    /\ pc \in {"ready", "looping", "undefined"}
    /\ answer \in {"kOK", "kEOF", "kIOError", "none"}
    /\ held \in [Page \X Frame -> Nat]
    /\ latest \in [Page -> Content]
    /\ pending \subseteq Frame
    /\ unread \subseteq Frame
    /\ excused \subseteq Page

(* The pin that a failed read left on a frame.                             *)
LeftBehind(f) == IF f \in unread THEN 1 ELSE 0

(* The frame whose address a caller was given holds the page it asked for  *)
(* until it gives it back, and has as many pins as callers hold of it, and *)
(* one more if its page could not be read (PinPage, PickVictim). Lookup    *)
(* still leads there, or its bucket points to a deleted entry.             *)
PinnedFrameKept ==
    \A p \in Page, f \in Frame : held[<<p, f>>] > 0 =>
        /\ mPageNum[f] = p
        /\ mRefCount[f] = held[<<p, f>>] + LeftBehind(f)
        /\ mUsageCount[f] = mRefCount[f]
        /\ Hash(p) \in freed \/ Finds(p, f)

(* What a caller put into a page is in the file, unless the page is still  *)
(* pinned by another, or a reader was the last to let go of it, a write    *)
(* failed or NewPage has overwritten it (UnpinPage, NewPage).              *)
PutIsInFile ==
    \A p \in Page :
        \/ file[p] = latest[p]
        \/ p \in excused
        \/ \E f \in Frame : f \in pending /\ mPageNum[f] = p /\ mRefCount[f] > 0

(* A caller that has a page in a frame sees what was last put into that    *)
(* page, unless it could not be read or the file has lost it.              *)
PinSeesPut ==
    \A p \in Page, f \in Frame :
        held[<<p, f>>] > 0 /\ f \notin unread /\ p \notin excused
            => mppBufData[f] = latest[p]
=============================================================================
