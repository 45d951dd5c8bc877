------------------------- MODULE FolderSearchProofs -------------------------
(***************************************************************************)
(* Theorems about FolderSearch, for every number of entries, every tree of *)
(* them and every order in which the system lists and others remove them.  *)
(***************************************************************************)
EXTENDS FolderSearch, NatInduction, SequenceTheorems

Folders == 0 .. MaxEntries
Frames  == [dir : Folders, unread : SUBSET Entries]

-----------------------------------------------------------------------------
(* The inductive invariant. *)

DiskType ==
  /\ parent \in [Entries -> Folders]
  /\ \A e \in Entries : parent[e] < e
  /\ \A e \in Entries : parent[e] # Root => kind[parent[e]] = "folder"
  /\ openable \in SUBSET Folders
  /\ recursive \in BOOLEAN

TypeOK ==
  /\ DiskType
  /\ removed \in SUBSET Entries
  /\ pc \in {"start", "folders", "listing", "files", "done"}
  /\ stack \in Seq(Frames)
  /\ folders \in Seq(Folders)
  /\ files \in SUBSET Entries /\ listing \in SUBSET Entries
  /\ tried \in Seq(Entries)

\* Nobody removes a folder that is not empty.
RemovedBottomUp == \A e \in Entries \ removed : parent[e] \notin removed

\* What the search shall find: the folders that are visible from the plugin folder.
Visible(d) == d # Root => Reached[parent[d]] /\ (recursive \/ parent[d] = Root)

\* The folders that the search goes into.
Entered(d) == d \in openable /\ (d = Root \/ (recursive /\ d \in Range(folders)))

FoldersSound ==
  /\ IsInjective(folders)
  /\ \A d \in Range(folders) : Visible(d)

\* No entry is read twice: no folder is open twice, and what is still to be read of
\* it was not found before.
FramesSound ==
  \A i \in DOMAIN stack :
    /\ Entered(stack[i].dir)
    /\ \A e \in stack[i].unread : parent[e] = stack[i].dir /\ e \notin Range(folders)
    /\ \A j \in DOMAIN stack : stack[i].dir = stack[j].dir => i = j

\* A folder of a folder that was entered was found or is still to be read.
FoldersComplete ==
  \A e \in Entries \ removed :
    kind[e] = "folder" /\ Entered(parent[e]) =>
      \/ e \in Range(folders)
      \/ \E i \in DOMAIN stack : stack[i].dir = parent[e] /\ e \in stack[i].unread

Searching ==
  /\ Root \notin Range(folders)
  /\ \A d \in Range(folders) : parent[d] \in {Root} \cup Range(folders)
  /\ FramesSound
  /\ FoldersComplete

\* Files that were found, or that GetFilesWildcard has still to read, and not tried.
Awaiting   == files \cup { e \in listing : kind[e] = "plugin" }
Candidates == Awaiting \cup Range(tried)

\* The files of a folder are tried when its turn has come, and those of the plugin
\* folder when no other folder is left.
FilesSound ==
  /\ Awaiting \cap Range(tried) = {}
  /\ \A f \in Candidates :
       /\ kind[f] = "plugin" /\ Reached[parent[f]]
       /\ parent[f] \notin Range(folders)
       /\ parent[f] = Root =>
            /\ folders = <<>>
            /\ \A g \in Awaiting : parent[g] = Root
  /\ \A i \in DOMAIN folders : folders[i] = Root => i = Len(folders)

FilesComplete ==
  \A e \in Entries \ removed :
    kind[e] = "plugin" /\ Reached[parent[e]] =>
      parent[e] \in Range(folders) \/ e \in Candidates

IInv ==
  /\ TypeOK
  /\ RemovedBottomUp
  /\ FoldersSound
  /\ TriedInOrder
  /\ pc = "start" => folders = <<>>
  /\ pc = "folders" => Searching
  /\ pc # "folders" => stack = <<>>
  /\ pc \in {"start", "folders"} => files = {} /\ tried = <<>>
  /\ pc # "listing" => listing = {}
  /\ pc \in {"listing", "files", "done"} => FilesSound /\ FilesComplete
  /\ pc = "done" => folders = <<>> /\ files = {}

-----------------------------------------------------------------------------
(* What the recursive definition of Reached says. *)

\* The equation of Reached has a solution: one for 0 .. n extends to n + 1, since
\* every entry is below a smaller one.
LEMMA ReachedExists ==
  ASSUME DiskType
  PROVE  \E R \in SUBSET Folders : \A d \in Folders :
           d \in R <=> /\ d \in openable
                       /\ d # Root => parent[d] \in R /\ (recursive \/ parent[d] = Root)
<1> DEFINE Solves(R, n) ==
             \A d \in 0 .. n :
               d \in R <=> /\ d \in openable
                           /\ d # Root =>
                                parent[d] \in R /\ (recursive \/ parent[d] = Root)
           A == { n \in Nat : n <= MaxEntries =>
                                \E R \in SUBSET (0 .. n) : Solves(R, n) }
<1>1. MaxEntries \in Nat
  BY EntriesAssumption
<1>2. 0 \in A
  <2>1. Solves({Root} \cap openable, 0) /\ {Root} \cap openable \in SUBSET (0 .. 0)
    BY DEF Root
  <2> QED
    BY <2>1
<1>3. ASSUME NEW n \in A PROVE n + 1 \in A
  <2>1. SUFFICES ASSUME n + 1 <= MaxEntries
                 PROVE  \E R \in SUBSET (0 .. n + 1) : Solves(R, n + 1)
    BY <1>1
  <2>2. PICK R \in SUBSET (0 .. n) : Solves(R, n)
    BY <2>1, <1>1
  <2> DEFINE in == /\ n + 1 \in openable
                   /\ parent[n + 1] \in R /\ (recursive \/ parent[n + 1] = Root)
             Q  == IF in THEN R \cup {n + 1} ELSE R
  <2>3. Q \in SUBSET (0 .. n + 1)
    OBVIOUS
  <2>4. \A d \in 0 .. n : d \in Q <=> d \in R
    OBVIOUS
  <2>5. n + 1 \in Q <=> in
    OBVIOUS
  <2>6. \A d \in 0 .. n + 1 : d # Root => parent[d] \in 0 .. n
    BY <2>1, <1>1 DEF DiskType, Entries, Folders, Root
  <2> HIDE DEF Q
  <2>7. Solves(Q, n + 1)
    <3>1. SUFFICES ASSUME NEW d \in 0 .. n + 1
                   PROVE  d \in Q <=> /\ d \in openable
                                      /\ d # Root =>
                                          /\ parent[d] \in Q
                                          /\ recursive \/ parent[d] = Root
      OBVIOUS
    <3>2. CASE d \in 0 .. n
      BY <2>2, <2>4, <2>6, <3>2
    <3>3. CASE d = n + 1
      <4>1. d # Root
        BY <3>3 DEF Root
      <4> QED
        BY <2>4, <2>5, <2>6, <3>3, <4>1
    <3> QED
      BY <3>2, <3>3
  <2> QED
    BY <2>3, <2>7
<1>4. A = Nat
  <2>1. A \in SUBSET Nat
    OBVIOUS
  <2> HIDE DEF A
  <2> QED
    BY <1>2, <1>3, <2>1, SetInduction
<1>5. MaxEntries \in A
  BY <1>1, <1>4
<1> QED
  BY <1>1, <1>5 DEF Folders

LEMMA ReachedDef ==
  ASSUME DiskType
  PROVE  \A d \in Folders : Reached[d] <=> d \in openable /\ Visible(d)
<1> DEFINE Equation(f) ==
             f = [ d \in 0 .. MaxEntries |->
                     /\ d \in openable
                     /\ d # Root => f[parent[d]] /\ (recursive \/ parent[d] = Root) ]
<1>1. PICK R \in SUBSET Folders : \A d \in Folders :
        d \in R <=> /\ d \in openable
                    /\ d # Root => parent[d] \in R /\ (recursive \/ parent[d] = Root)
  BY ReachedExists
<1>2. \A d \in Folders : d # Root => parent[d] \in Folders
  BY DEF DiskType, Entries, Folders, Root
<1>3. \E f : Equation(f)
  <2> DEFINE f == [ d \in Folders |-> d \in R ]
  <2>1. \A d \in Folders :
          (d \in R) =
            (/\ d \in openable
             /\ d # Root => f[parent[d]] /\ (recursive \/ parent[d] = Root))
    <3>1. \A d \in Folders : d # Root => (f[parent[d]] <=> parent[d] \in R)
      BY <1>2, Zenon
    <3> HIDE DEF f
    <3> SUFFICES ASSUME NEW d \in Folders
                 PROVE  (d \in R) =
                          (/\ d \in openable
                           /\ d # Root =>
                                f[parent[d]] /\ (recursive \/ parent[d] = Root))
      OBVIOUS
    <3>2. d \in R <=>
            /\ d \in openable
            /\ d # Root => f[parent[d]] /\ (recursive \/ parent[d] = Root)
      BY <1>1, <3>1, Zenon
    <3> DEFINE rhs == /\ d \in openable
                      /\ d # Root =>
                           f[parent[d]] /\ (recursive \/ parent[d] = Root)
    <3>3. rhs \in BOOLEAN
      OBVIOUS
    <3>4. d \in R <=> rhs
      BY <3>2
    <3> HIDE DEF rhs
    <3>5. (d \in R) = rhs
      BY <3>3, <3>4
    <3> QED
      BY <3>5 DEF rhs
  <2>2. Equation(f)
    BY <2>1, Zenon DEF Folders
  <2> QED
    BY <2>2
<1>4. Equation(CHOOSE f : Equation(f))
  <2> HIDE DEF Equation
  <2> QED
    BY <1>3
<1>5. Equation(Reached)
  BY <1>4 DEF Reached
<1> QED
  BY <1>5, Zenon DEF Folders, Visible

\* The disk's contents do not change, and so neither does what can be reached.
LEMMA SameDisk ==
  ASSUME UNCHANGED disk
  PROVE  /\ parent' = parent /\ kind' = kind /\ openable' = openable
         /\ recursive' = recursive
         /\ DiskType => DiskType'
         /\ Reached' = Reached
         /\ \A d : Visible(d)' <=> Visible(d)
<1>1. parent' = parent /\ kind' = kind /\ openable' = openable /\ recursive' = recursive
  BY DEF disk
<1>2. Reached' = Reached
  BY <1>1 DEF Reached
<1> QED
  BY <1>1, <1>2 DEF DiskType, Visible

-----------------------------------------------------------------------------
(* What is in a sequence. *)

LEMMA RangeMembers ==
  ASSUME NEW S, NEW s \in Seq(S)
  PROVE  /\ \A i \in 1 .. Len(s) : s[i] \in Range(s)
         /\ \A x \in Range(s) : x \in S /\ \E i \in 1 .. Len(s) : x = s[i]
         /\ s = <<>> => Range(s) = {}
<1>1. Range(s) = { s[i] : i \in 1 .. Len(s) }
  BY RangeEquality
<1>2. \A i \in 1 .. Len(s) : s[i] \in S
  BY ElementOfSeq
<1>3. s = <<>> => Len(s) = 0
  OBVIOUS
<1> QED
  BY <1>1, <1>2, <1>3

LEMMA AppendRange ==
  ASSUME NEW S, NEW s \in Seq(S), NEW x \in S
  PROVE  /\ Range(Append(s, x)) = Range(s) \cup {x}
         /\ IsInjective(s) /\ x \notin Range(s) => IsInjective(Append(s, x))
<1>1. /\ Append(s, x) \in Seq(S) /\ Len(Append(s, x)) = Len(s) + 1
      /\ \A i \in 1 .. Len(s) : Append(s, x)[i] = s[i]
      /\ Append(s, x)[Len(s) + 1] = x
  BY AppendProperties
<1>2. Range(Append(s, x)) = Range(s) \cup {x}
  BY <1>1 DEF Range
<1>3. ASSUME IsInjective(s), x \notin Range(s) PROVE IsInjective(Append(s, x))
  BY <1>1, <1>3 DEF Range, IsInjective
<1> QED
  BY <1>2, <1>3

LEMMA TailRange ==
  ASSUME NEW S, NEW s \in Seq(S), s # <<>>
  PROVE  /\ Range(s) = {Head(s)} \cup Range(Tail(s))
         /\ IsInjective(s) => IsInjective(Tail(s)) /\ Head(s) \notin Range(Tail(s))
<1> DEFINE t == Tail(s)
<1>1. /\ t \in Seq(S) /\ Len(t) = Len(s) - 1 /\ Len(s) \in Nat \ {0}
      /\ \A i \in 1 .. Len(t) : t[i] = s[i + 1]
      /\ Head(s) = s[1]
  BY HeadTailProperties, EmptySeq
<1> HIDE DEF t
<1>2. /\ Range(s) = { s[i] : i \in 1 .. Len(s) } /\ DOMAIN s = 1 .. Len(s)
      /\ Range(t) = { t[i] : i \in 1 .. Len(t) } /\ DOMAIN t = 1 .. Len(t)
  BY <1>1, RangeEquality, LenProperties
<1>3. Range(s) = {Head(s)} \cup Range(t)
  <2>1. \A i \in 1 .. Len(s) : i = 1 \/ (i - 1 \in 1 .. Len(t) /\ s[i] = t[i - 1])
    BY <1>1
  <2>2. \A i \in 1 .. Len(t) : i + 1 \in 1 .. Len(s) /\ t[i] = s[i + 1]
    BY <1>1
  <2>3. 1 \in 1 .. Len(s)
    BY <1>1
  <2> QED
    BY <1>1, <1>2, <2>1, <2>2, <2>3
<1>4. ASSUME IsInjective(s)
      PROVE  IsInjective(t) /\ Head(s) \notin Range(t)
  <2>1. \A i, j \in 1 .. Len(s) : s[i] = s[j] => i = j
    BY <1>2, <1>4 DEF IsInjective
  <2>2. \A i, j \in 1 .. Len(t) : t[i] = t[j] => i = j
    <3>1. \A i \in 1 .. Len(t) : i + 1 \in 1 .. Len(s) /\ t[i] = s[i + 1]
      BY <1>1
    <3> QED
      BY <2>1, <3>1
  <2>3. \A i \in 1 .. Len(t) : t[i] # Head(s)
    BY <1>1, <2>1
  <2> QED
    BY <1>2, <2>2, <2>3 DEF IsInjective
<1> QED
  BY <1>3, <1>4 DEF t

-----------------------------------------------------------------------------
(* The calls of GetAllSubfolders on the stack. *)

LEMMA OpenDirFrames ==
  ASSUME NEW d \in Folders
  PROVE  /\ OpenDir(d) \in Seq(Frames)
         /\ d \notin openable \ removed => OpenDir(d) = <<>>
         /\ d \in openable \ removed =>
              /\ Len(OpenDir(d)) = 1
              /\ OpenDir(d)[1].dir = d /\ OpenDir(d)[1].unread = Listed(d)
<1>1. [dir |-> d, unread |-> Listed(d)] \in Frames
  BY DEF Frames, Listed
<1> QED
  BY <1>1 DEF OpenDir

\* An entry of the folder in front was read.
ReadBy(e) == [stack EXCEPT ![1].unread = @ \ {e}]

LEMMA ReadFrames ==
  ASSUME stack \in Seq(Frames), stack # <<>>, NEW e
  PROVE  /\ ReadBy(e) \in Seq(Frames)
         /\ Len(ReadBy(e)) = Len(stack)
         /\ \A i \in 1 .. Len(stack) :
              /\ ReadBy(e)[i].dir = stack[i].dir
              /\ ReadBy(e)[i].unread =
                   IF i = 1 THEN stack[i].unread \ {e} ELSE stack[i].unread
<1>1. 1 \in 1 .. Len(stack) /\ stack[1] \in Frames
  BY EmptySeq, ElementOfSeq
<1>2. [stack[1] EXCEPT !.unread = @ \ {e}] \in Frames
  BY <1>1 DEF Frames
<1>3. ReadBy(e) = [stack EXCEPT ![1] = [stack[1] EXCEPT !.unread = @ \ {e}]]
  BY DEF ReadBy
<1>4. /\ ReadBy(e) \in Seq(Frames) /\ Len(ReadBy(e)) = Len(stack)
      /\ \A i \in 1 .. Len(stack) :
           ReadBy(e)[i] = IF i = 1 THEN [stack[1] EXCEPT !.unread = @ \ {e}]
                          ELSE stack[i]
  BY <1>1, <1>2, <1>3, ExceptSeq
<1>5. [stack[1] EXCEPT !.unread = @ \ {e}].dir = stack[1].dir
  BY <1>1 DEF Frames
<1>6. [stack[1] EXCEPT !.unread = @ \ {e}].unread = stack[1].unread \ {e}
  BY <1>1 DEF Frames
<1> QED
  BY <1>4, <1>5, <1>6

-----------------------------------------------------------------------------
(* Types. *)

LEMMA InitType == Init => TypeOK
<1> SUFFICES ASSUME Init PROVE TypeOK
  OBVIOUS
<1>1. parent \in [Entries -> Folders]
  BY DEF Init, Folders
<1>2. \A e \in Entries :
        parent[e] < e /\ (parent[e] # Root => kind[parent[e]] = "folder")
  BY EntriesAssumption DEF Init, Entries, Root
<1>3. openable \in SUBSET Folders
  BY EntriesAssumption DEF Init, Entries, Root, Folders
<1> QED
  BY <1>1, <1>2, <1>3 DEF Init, TypeOK, DiskType

LEMMA NextType == TypeOK /\ [Next]_vars => TypeOK'
<1> SUFFICES ASSUME TypeOK, [Next]_vars PROVE TypeOK'
  OBVIOUS
<1>0. Root \in Folders /\ Entries \subseteq Folders
  BY EntriesAssumption DEF Root, Folders, Entries
<1>1. ASSUME UNCHANGED disk PROVE DiskType'
  BY <1>1, SameDisk DEF TypeOK
<1>2. CASE GetAllSubfolders
  BY <1>0, <1>1, <1>2, OpenDirFrames DEF TypeOK, GetAllSubfolders
<1>3. CASE ReadEntry
  <2>1. PICK e \in stack[1].unread : CannotStat(e) \/ FoundFolder(e) \/ FoundFile(e)
    BY <1>3 DEF ReadEntry
  <2>2. stack # <<>> /\ stack[1] \in Frames
    BY <1>3 DEF ReadEntry, TypeOK
  <2>3. e \in Entries
    BY <2>2 DEF Frames
  <2>4. ReadBy(e) \in Seq(Frames)
    BY <2>2, ReadFrames DEF TypeOK
  <2>5. stack' \in Seq(Frames) /\ folders' \in Seq(Folders)
    <3>1. CASE CannotStat(e) \/ FoundFile(e)
      BY <2>4, <3>1 DEF CannotStat, FoundFile, ReadBy, TypeOK
    <3>2. CASE FoundFolder(e)
      <4>1. folders' = Append(folders, e)
        BY <3>2 DEF FoundFolder
      <4>2. stack' = (IF recursive THEN OpenDir(e) ELSE <<>>) \o ReadBy(e)
        BY <3>2 DEF FoundFolder, ReadBy
      <4>3. (IF recursive THEN OpenDir(e) ELSE <<>>) \in Seq(Frames)
        BY <1>0, <2>3, OpenDirFrames
      <4> QED
        BY <1>0, <2>3, <2>4, <4>1, <4>2, <4>3, ConcatProperties DEF TypeOK
    <3> QED
      BY <2>1, <3>1, <3>2
  <2> QED
    BY <1>1, <1>3, <2>5 DEF TypeOK, ReadEntry
<1>4. CASE CloseDir
  BY <1>1, <1>4 DEF TypeOK, CloseDir
<1>5. CASE SearchDone
  BY <1>0, <1>1, <1>5 DEF TypeOK, SearchDone, WithRoot
<1>6. CASE GetFilesWildcard
  BY <1>1, <1>6 DEF TypeOK, GetFilesWildcard, Listed
<1>7. CASE TryFile
  BY <1>1, <1>7 DEF TypeOK, TryFile
<1>8. CASE LoadAllDone
  BY <1>1, <1>8 DEF TypeOK, LoadAllDone
<1>9. CASE Remove
  BY <1>1, <1>9 DEF TypeOK, Remove
<1>10. CASE UNCHANGED vars
  BY <1>1, <1>10 DEF TypeOK, vars
<1>11. CASE ListEntry
  BY <1>1, <1>11 DEF TypeOK, ListEntry
<1>12. CASE ListDone
  BY <1>1, <1>12 DEF TypeOK, ListDone
<1> QED
  BY <1>2, <1>3, <1>4, <1>5, <1>6, <1>7, <1>8, <1>9, <1>10,
     <1>11, <1>12 DEF Next

-----------------------------------------------------------------------------
(* The invariant is inductive. *)

\* What does not change keeps what is said of it.
LEMMA Unchanged ==
  ASSUME IInv, UNCHANGED disk
  PROVE  /\ removed' = removed => RemovedBottomUp'
         /\ folders' = folders => FoldersSound'
         /\ tried' = tried => TriedInOrder'
<1> USE SameDisk
<1>1. removed' = removed => RemovedBottomUp'
  BY DEF IInv, RemovedBottomUp
<1>2. folders' = folders => FoldersSound'
  BY DEF IInv, FoldersSound
<1>3. tried' = tried => TriedInOrder'
  BY DEF IInv, TriedInOrder
<1> QED
  BY <1>1, <1>2, <1>3

LEMMA Numbers ==
  /\ MaxEntries \in Nat
  /\ Root \in Folders /\ Root \notin Entries /\ Entries \subseteq Folders
  /\ \A d \in Folders : d # Root => d \in Entries
BY EntriesAssumption DEF Root, Folders, Entries

LEMMA InitInv == Init => IInv
<1> SUFFICES ASSUME Init PROVE IInv
  OBVIOUS
<1>1. TypeOK
  BY InitType
<1>2. RemovedBottomUp
  BY DEF Init, RemovedBottomUp
<1>3. folders = <<>> /\ tried = <<>> /\ pc = "start" /\ stack = <<>> /\ files = {}
      /\ listing = {}
  BY DEF Init
<1>4. FoldersSound
  BY <1>3 DEF FoldersSound, IsInjective, Range
<1>5. TriedInOrder
  BY <1>3 DEF TriedInOrder, IsInjective
<1> QED
  BY <1>1, <1>2, <1>3, <1>4, <1>5 DEF IInv

LEMMA StartsSearch == IInv /\ GetAllSubfolders => IInv'
<1> SUFFICES ASSUME IInv, GetAllSubfolders PROVE IInv'
  OBVIOUS
<1>1. /\ pc' = "folders" /\ stack' = OpenDir(Root) /\ UNCHANGED disk
      /\ removed' = removed /\ folders' = folders /\ files' = files /\ listing' = listing
      /\ tried' = tried
      /\ folders = <<>> /\ files = {} /\ listing = {} /\ tried = <<>>
  BY DEF GetAllSubfolders, IInv
<1>2. TypeOK /\ TypeOK'
  BY NextType DEF Next, IInv
<1>3. RemovedBottomUp' /\ FoldersSound' /\ TriedInOrder'
  BY <1>1, Unchanged
<1>4. parent' = parent /\ kind' = kind /\ openable' = openable /\ recursive' = recursive
  BY <1>1, SameDisk
<1>5. Range(folders) = {} /\ Range(folders') = {}
  BY <1>1 DEF Range
<1>6. FramesSound'
  <2>1. SUFFICES ASSUME NEW i \in DOMAIN stack'
                 PROVE  /\ Entered(stack[i].dir)'
                        /\ \A e \in stack'[i].unread : parent[e] = stack'[i].dir
                        /\ \A j \in DOMAIN stack' : i = j
    BY <1>4, <1>5 DEF FramesSound
  <2>2. Root \in openable \ removed /\ DOMAIN stack' = 1 .. 1
    BY <1>1, <2>1, Numbers, OpenDirFrames, LenProperties
  <2>3. stack'[1].dir = Root /\ stack'[1].unread = Listed(Root)
    BY <1>1, <2>2, Numbers, OpenDirFrames
  <2> QED
    BY <1>4, <2>2, <2>3 DEF Entered, Listed
<1>7. FoldersComplete'
  <2>1. SUFFICES ASSUME NEW e \in Entries \ removed, Root \in openable, parent[e] = Root
                 PROVE  \E i \in DOMAIN stack' :
                          stack'[i].dir = parent[e] /\ e \in stack'[i].unread
    BY <1>1, <1>4, <1>5 DEF FoldersComplete, Entered
  <2>2. Root \in openable \ removed
    BY <1>2, <2>1, Numbers DEF TypeOK
  <2>3. /\ stack' \in Seq(Frames) /\ Len(stack') = 1
        /\ stack'[1].dir = Root /\ stack'[1].unread = Listed(Root)
    BY <1>1, <2>2, Numbers, OpenDirFrames
  <2> QED
    BY <2>1, <2>3 DEF Listed
<1>8. Searching'
  BY <1>5, <1>6, <1>7 DEF Searching
<1> QED
  BY <1>1, <1>2, <1>3, <1>8 DEF IInv

\* What the search looks at next is there, in its folder, and was not found yet.
LEMMA ReadsNew ==
  ASSUME IInv, ReadEntry
  PROVE  /\ pc = "folders" /\ Searching /\ stack \in Seq(Frames) /\ stack # <<>>
         /\ 1 \in DOMAIN stack /\ DOMAIN stack = 1 .. Len(stack)
         /\ \A e \in stack[1].unread :
              e \in Entries /\ parent[e] = stack[1].dir /\ e \notin Range(folders)
<1>1. pc = "folders" /\ Searching /\ stack \in Seq(Frames) /\ stack # <<>>
  BY DEF IInv, ReadEntry, TypeOK
<1>2. 1 \in DOMAIN stack /\ DOMAIN stack = 1 .. Len(stack) /\ stack[1] \in Frames
  BY <1>1, LenProperties, EmptySeq, ElementOfSeq
<1> QED
  BY <1>1, <1>2 DEF Searching, FramesSound, Frames

\* An entry that is no folder, or is gone, is passed over.
LEMMA PassesOver ==
  ASSUME IInv, ReadEntry, NEW e \in stack[1].unread, CannotStat(e) \/ FoundFile(e)
  PROVE  IInv'
<1>1. /\ stack' = ReadBy(e) /\ folders' = folders
      /\ e \in removed \/ kind[e] # "folder"
  BY DEF CannotStat, FoundFile, ReadBy
<1>2. /\ UNCHANGED disk /\ removed' = removed /\ pc' = pc /\ files' = files
      /\ listing' = listing /\ tried' = tried
  BY DEF ReadEntry
<1>3. TypeOK /\ TypeOK'
  BY NextType DEF Next, IInv
<1>4. RemovedBottomUp' /\ FoldersSound' /\ TriedInOrder'
  BY <1>1, <1>2, Unchanged
<1>5. parent' = parent /\ kind' = kind /\ openable' = openable /\ recursive' = recursive
  BY <1>2, SameDisk
<1>6. /\ pc = "folders" /\ Searching /\ stack \in Seq(Frames) /\ stack # <<>>
      /\ DOMAIN stack = 1 .. Len(stack)
  BY ReadsNew
<1>7. /\ DOMAIN stack' = DOMAIN stack
      /\ \A i \in DOMAIN stack :
           /\ stack'[i].dir = stack[i].dir
           /\ stack'[i].unread \subseteq stack[i].unread
           /\ stack[i].unread \subseteq stack'[i].unread \cup {e}
  <2>1. /\ stack' \in Seq(Frames) /\ Len(stack') = Len(stack)
        /\ \A i \in 1 .. Len(stack) :
             /\ stack'[i].dir = stack[i].dir
             /\ stack'[i].unread =
                  IF i = 1 THEN stack[i].unread \ {e} ELSE stack[i].unread
    BY <1>1, <1>6, ReadFrames, Zenon
  <2>2. DOMAIN stack' = 1 .. Len(stack')
    BY <2>1, LenProperties, Zenon
  <2> QED
    BY <1>6, <2>1, <2>2
<1>8. FramesSound'
  BY <1>1, <1>5, <1>6, <1>7 DEF Searching, FramesSound, Entered
<1>9. FoldersComplete'
  BY <1>1, <1>2, <1>5, <1>6, <1>7 DEF Searching, FoldersComplete, Entered
<1>10. Searching'
  BY <1>1, <1>5, <1>6, <1>8, <1>9 DEF Searching
<1> QED
  BY <1>1, <1>2, <1>3, <1>4, <1>6, <1>10 DEF IInv

\* A folder that was found is entered at once if the search is recursive.  Nothing
\* in it was found before, since the folder itself was not.
LEMMA FindsFolder ==
  ASSUME IInv, ReadEntry, NEW e \in stack[1].unread, FoundFolder(e)
  PROVE  IInv'
<1> DEFINE push == IF recursive THEN OpenDir(e) ELSE <<>>
<1>1. /\ stack' = push \o ReadBy(e) /\ folders' = Append(folders, e)
      /\ kind[e] = "folder" /\ e \notin removed
  BY DEF FoundFolder, ReadBy
<1>2. /\ UNCHANGED disk /\ removed' = removed /\ pc' = pc /\ files' = files
      /\ listing' = listing /\ tried' = tried
  BY DEF ReadEntry
<1>3. TypeOK /\ TypeOK'
  BY NextType DEF Next, IInv
<1>4. RemovedBottomUp' /\ TriedInOrder'
  BY <1>2, Unchanged
<1>5. /\ parent' = parent /\ kind' = kind /\ openable' = openable
      /\ recursive' = recursive
      /\ \A d : Visible(d)' <=> Visible(d)
  BY <1>2, SameDisk
<1>6. /\ pc = "folders" /\ Searching /\ stack \in Seq(Frames) /\ stack # <<>>
      /\ 1 \in DOMAIN stack /\ DOMAIN stack = 1 .. Len(stack) /\ Len(stack) \in Nat
      /\ e \in Entries /\ parent[e] = stack[1].dir /\ e \notin Range(folders)
  BY ReadsNew, LenProperties
<1>7. Range(folders') = Range(folders) \cup {e} /\ IsInjective(folders')
  BY <1>1, <1>3, <1>6, Numbers, AppendRange DEF TypeOK, IInv, FoldersSound
<1>8. Entered(parent[e])
  BY <1>6 DEF Searching, FramesSound
<1>9. FoldersSound'
  <2>1. \A d \in Folders : Reached[d] <=> d \in openable /\ Visible(d)
    BY <1>3, ReachedDef DEF TypeOK
  <2>2. Visible(parent[e])
    BY <1>8 DEF Entered, IInv, FoldersSound, Visible
  <2>3. Visible(e)
    BY <1>3, <1>6, <1>8, <2>1, <2>2 DEF Visible, Entered, TypeOK, DiskType
  <2> QED
    BY <1>5, <1>7, <2>3 DEF FoldersSound, IInv
<1>10. Root \notin Range(folders')
  BY <1>6, <1>7, Numbers DEF Searching
<1>11. \A d \in Range(folders') : parent[d] \in {Root} \cup Range(folders')
  BY <1>6, <1>7, <1>8 DEF Searching, Entered
<1>12. PICK k \in {0, 1} :
         /\ stack' \in Seq(Frames) /\ DOMAIN stack' = 1 .. k + Len(stack)
         /\ k = 1 => recursive /\ e \in openable \ removed
                     /\ stack'[1].dir = e /\ stack'[1].unread = Listed(e)
         /\ recursive /\ e \in openable \ removed => k = 1
         /\ \A i \in 1 .. Len(stack) :
              /\ stack'[i + k].dir = stack[i].dir
              /\ stack'[i + k].unread =
                   IF i = 1 THEN stack[i].unread \ {e} ELSE stack[i].unread
  <2>1. /\ ReadBy(e) \in Seq(Frames) /\ Len(ReadBy(e)) = Len(stack)
        /\ \A i \in 1 .. Len(stack) :
             /\ ReadBy(e)[i].dir = stack[i].dir
             /\ ReadBy(e)[i].unread =
                  IF i = 1 THEN stack[i].unread \ {e} ELSE stack[i].unread
    BY <1>6, ReadFrames, Zenon
  <2>2. /\ push \in Seq(Frames)
        /\ Len(push) = 0 \/ Len(push) = 1
        /\ Len(push) = 1 => recursive /\ e \in openable \ removed
                            /\ push[1].dir = e /\ push[1].unread = Listed(e)
        /\ recursive /\ e \in openable \ removed => Len(push) = 1
    BY <1>6, Numbers, OpenDirFrames
  <2> HIDE DEF push
  <2>3. /\ stack' \in Seq(Frames) /\ Len(stack') = Len(push) + Len(stack)
        /\ \A i \in 1 .. Len(push) + Len(stack) :
             stack'[i] = IF i <= Len(push) THEN push[i] ELSE ReadBy(e)[i - Len(push)]
    BY <1>1, <2>1, <2>2, ConcatProperties
  <2>4. DOMAIN stack' = 1 .. Len(stack')
    BY <2>3, LenProperties, Zenon
  <2>5. Len(push) = 1 => stack'[1] = push[1]
    BY <1>6, <2>3
  <2>6. ASSUME NEW i \in 1 .. Len(stack)
        PROVE  stack'[i + Len(push)] = ReadBy(e)[i]
    <3>1. CASE Len(push) = 0
      BY <1>6, <2>3, <3>1
    <3>2. CASE Len(push) = 1
      BY <1>6, <2>3, <3>2
    <3> QED
      BY <2>2, <3>1, <3>2
  <2>7. Len(push) \in {0, 1} /\ DOMAIN stack' = 1 .. Len(push) + Len(stack)
    BY <2>2, <2>3, <2>4
  <2>8. \A i \in 1 .. Len(stack) :
          /\ stack'[i + Len(push)].dir = stack[i].dir
          /\ stack'[i + Len(push)].unread =
               IF i = 1 THEN stack[i].unread \ {e} ELSE stack[i].unread
    BY <2>1, <2>6
  <2> QED
    BY <2>2, <2>3, <2>5, <2>7, <2>8, Zenon
<1>13. \A j \in DOMAIN stack' :
         \/ k = 1 /\ j = 1
         \/ \E i \in 1 .. Len(stack) : j = i + k
  <2>1. SUFFICES ASSUME NEW j \in DOMAIN stack', ~(k = 1 /\ j = 1)
                 PROVE  j - k \in 1 .. Len(stack) /\ j = (j - k) + k
    OBVIOUS
  <2> QED
    BY <1>6, <1>12, <2>1
<1>14. \A i \in 1 .. Len(stack) :
         /\ Entered(stack[i].dir) /\ stack[i].dir # e
         /\ \A x \in stack[i].unread :
              parent[x] = stack[i].dir /\ x \notin Range(folders)
         /\ \A j \in 1 .. Len(stack) : stack[i].dir = stack[j].dir => i = j
  BY <1>6, Numbers DEF Searching, FramesSound, Entered
<1>15. \A x \in Listed(e) : parent[x] = e /\ x \notin Range(folders')
  <2>1. SUFFICES ASSUME NEW x \in Entries, parent[x] = e
                 PROVE  x \notin Range(folders) /\ x # e
    BY <1>7 DEF Listed
  <2>2. x # e
    BY <1>3, <1>6, <2>1 DEF TypeOK, DiskType, Entries
  <2> QED
    BY <1>6, <2>1, <2>2, Numbers DEF Searching
<1> DEFINE InNow(d) == Entered(d) \/ (d = e /\ recursive /\ e \in openable)
<1>16. FramesSound'
  <2>1. ASSUME k = 1
        PROVE  /\ InNow(stack'[1].dir)
               /\ \A x \in stack'[1].unread :
                    parent[x] = stack'[1].dir /\ x \notin Range(folders')
               /\ \A i \in 1 .. Len(stack) : stack'[i + k].dir # stack'[1].dir
    <3>1. stack'[1].dir = e /\ stack'[1].unread = Listed(e) /\ InNow(e)
      BY <1>12, <2>1
    <3>2. ASSUME NEW i \in 1 .. Len(stack) PROVE stack'[i + k].dir # e
      <4>1. stack'[i + k].dir = stack[i].dir
        BY <1>12
      <4> QED
        BY <1>14, <4>1
    <3> QED
      BY <1>15, <3>1, <3>2
  <2>2. ASSUME NEW i \in 1 .. Len(stack)
        PROVE  /\ InNow(stack'[i + k].dir)
               /\ \A x \in stack'[i + k].unread :
                    parent[x] = stack'[i + k].dir /\ x \notin Range(folders')
               /\ \A j \in 1 .. Len(stack) :
                    stack'[i + k].dir = stack'[j + k].dir => i = j
    <3>1. /\ stack'[i + k].dir = stack[i].dir
          /\ stack'[i + k].unread \subseteq stack[i].unread
          /\ i = 1 => e \notin stack'[i + k].unread
      BY <1>12
    <3>2. e \notin stack'[i + k].unread
      BY <1>6, <1>14, <3>1
    <3>3. \A j \in 1 .. Len(stack) : stack'[j + k].dir = stack[j].dir
      BY <1>12
    <3> QED
      BY <1>7, <1>14, <3>1, <3>2, <3>3
  <2>3. ASSUME NEW i \in DOMAIN stack'
        PROVE  /\ InNow(stack'[i].dir)
               /\ \A x \in stack'[i].unread :
                    parent[x] = stack'[i].dir /\ x \notin Range(folders')
    BY <1>13, <2>1, <2>2
  <2>4. ASSUME NEW i \in DOMAIN stack', NEW j \in DOMAIN stack',
               stack'[i].dir = stack'[j].dir
        PROVE  i = j
    BY <1>13, <2>1, <2>2, <2>4
  <2>5. \A i \in DOMAIN stack' : Entered(stack[i].dir)'
    BY <1>5, <1>6, <1>7, <2>3, Numbers DEF Entered
  <2> QED
    BY <1>5, <2>3, <2>4, <2>5 DEF FramesSound
<1>17. FoldersComplete'
  <2>1. SUFFICES ASSUME NEW x \in Entries \ removed, kind[x] = "folder",
                        Entered(parent[x])', x \notin Range(folders')
                 PROVE  \E j \in DOMAIN stack' :
                          stack'[j].dir = parent[x] /\ x \in stack'[j].unread
    BY <1>2, <1>5 DEF FoldersComplete
  <2>2. CASE parent[x] = e /\ recursive /\ e \in openable
    <3>1. k = 1 /\ x \in Listed(e)
      BY <1>1, <1>12, <2>1, <2>2 DEF Listed
    <3>2. 1 \in DOMAIN stack'
      BY <1>6, <1>12, <3>1
    <3> QED
      BY <1>12, <2>2, <3>1, <3>2
  <2>3. CASE Entered(parent[x])
    <3>1. PICK i \in 1 .. Len(stack) : stack[i].dir = parent[x] /\ x \in stack[i].unread
      BY <1>6, <1>7, <2>1, <2>3 DEF Searching, FoldersComplete
    <3>2. /\ stack'[i + k].dir = stack[i].dir
          /\ stack[i].unread \subseteq stack'[i + k].unread \cup {e}
      BY <1>12
    <3>3. i + k \in DOMAIN stack'
      BY <1>6, <1>12
    <3>4. x # e
      BY <1>7, <2>1
    <3> QED
      BY <3>1, <3>2, <3>3, <3>4
  <2> QED
    <3>1. Entered(parent[x]) \/ (parent[x] = e /\ recursive /\ e \in openable)
      BY <1>5, <1>6, <1>7, <2>1, Numbers DEF Entered
    <3> QED
      BY <2>2, <2>3, <3>1
<1>18. Searching'
  BY <1>5, <1>10, <1>11, <1>16, <1>17 DEF Searching
<1> QED
  BY <1>2, <1>3, <1>4, <1>6, <1>9, <1>18 DEF IInv

LEMMA ReturnsFromFolder == IInv /\ CloseDir => IInv'
<1> SUFFICES ASSUME IInv, CloseDir PROVE IInv'
  OBVIOUS
<1>1. /\ stack # <<>> /\ stack[1].unread = {} /\ stack' = Tail(stack)
      /\ UNCHANGED disk /\ removed' = removed /\ pc' = pc /\ folders' = folders
      /\ files' = files /\ listing' = listing
      /\ tried' = tried
  BY DEF CloseDir
<1>2. TypeOK /\ TypeOK'
  BY <1>1, NextType DEF Next, IInv
<1>3. RemovedBottomUp' /\ FoldersSound' /\ TriedInOrder'
  BY <1>1, Unchanged
<1>4. parent' = parent /\ kind' = kind /\ openable' = openable /\ recursive' = recursive
  BY <1>1, SameDisk
<1>5. pc = "folders" /\ Searching /\ stack \in Seq(Frames)
  BY <1>1 DEF IInv, TypeOK
<1>6. /\ DOMAIN stack = 1 .. Len(stack) /\ Len(stack) \in Nat \ {0}
      /\ DOMAIN stack' = 1 .. Len(stack) - 1
      /\ \A i \in DOMAIN stack' : stack'[i] = stack[i + 1]
  <2>1. /\ stack' \in Seq(Frames) /\ Len(stack') = Len(stack) - 1
        /\ \A i \in 1 .. Len(stack') : stack'[i] = stack[i + 1]
    BY <1>1, <1>5, HeadTailProperties
  <2> QED
    BY <1>1, <1>5, <2>1, LenProperties, EmptySeq
<1>7. FramesSound'
  <2>1. SUFFICES ASSUME NEW i \in DOMAIN stack'
                 PROVE  /\ Entered(stack[i].dir)'
                        /\ \A e \in stack'[i].unread :
                             parent[e] = stack'[i].dir /\ e \notin Range(folders)
                        /\ \A j \in DOMAIN stack' :
                             stack'[i].dir = stack'[j].dir => i = j
    BY <1>1, <1>4 DEF FramesSound
  <2>2. /\ i + 1 \in DOMAIN stack /\ stack'[i] = stack[i + 1]
        /\ \A j \in DOMAIN stack' : j + 1 \in DOMAIN stack /\ stack'[j] = stack[j + 1]
    BY <1>6
  <2>3. /\ Entered(stack[i + 1].dir)
        /\ \A e \in stack[i + 1].unread :
             parent[e] = stack[i + 1].dir /\ e \notin Range(folders)
        /\ \A j \in DOMAIN stack : stack[i + 1].dir = stack[j].dir => i + 1 = j
    BY <1>5, <2>2 DEF Searching, FramesSound
  <2>4. Entered(stack[i].dir)'
    BY <1>1, <1>4, <2>2, <2>3 DEF Entered
  <2>5. ASSUME NEW j \in DOMAIN stack', stack'[i].dir = stack'[j].dir PROVE i = j
    <3>1. i + 1 = j + 1
      BY <2>2, <2>3, <2>5
    <3> QED
      BY <1>6, <3>1
  <2> QED
    BY <2>2, <2>3, <2>4, <2>5
<1>8. FoldersComplete'
  <2>1. SUFFICES ASSUME NEW e \in Entries \ removed, kind[e] = "folder",
                        Entered(parent[e]), e \notin Range(folders)
                 PROVE  \E i \in DOMAIN stack' :
                          stack'[i].dir = parent[e] /\ e \in stack'[i].unread
    BY <1>1, <1>4 DEF FoldersComplete, Entered
  <2>2. PICK i \in DOMAIN stack : stack[i].dir = parent[e] /\ e \in stack[i].unread
    BY <1>5, <2>1 DEF Searching, FoldersComplete
  <2>3. i # 1
    BY <1>1, <2>2
  <2>4. i - 1 \in DOMAIN stack' /\ stack'[i - 1] = stack[i]
    BY <1>6, <2>2, <2>3
  <2> QED
    BY <2>2, <2>4
<1>9. Searching'
  BY <1>1, <1>4, <1>5, <1>7, <1>8 DEF Searching
<1> QED
  BY <1>1, <1>2, <1>3, <1>5, <1>9 DEF IInv

\* When no call is left, every folder there is that can be reached was found: by
\* induction, since a folder is below a smaller one.
LEMMA AllFound ==
  ASSUME TypeOK, RemovedBottomUp, FoldersComplete, stack = <<>>
  PROVE  \A d \in Folders \ removed :
           Reached[d] /\ (d # Root => kind[d] = "folder")
             => d \in {Root} \cup Range(folders)
<1> DEFINE Found(d) == Reached[d] /\ (d # Root => kind[d] = "folder")
                         => d \in {Root} \cup Range(folders)
           A == { n \in Nat : \A d \in Folders \ removed : d <= n => Found(d) }
<1>1. 0 \in A
  BY DEF Folders, Root
<1>2. ASSUME NEW n \in A PROVE n + 1 \in A
  <2>1. SUFFICES ASSUME NEW d \in Folders \ removed, d = n + 1, Reached[d],
                        kind[d] = "folder", d # Root
                 PROVE  d \in Range(folders)
    BY Numbers DEF Folders
  <2>2. /\ d \in Entries \ removed /\ parent[d] \in Folders /\ parent[d] <= n
        /\ parent[d] # Root => kind[parent[d]] = "folder"
    BY <2>1, Numbers DEF TypeOK, DiskType, Folders, Entries
  <2>3. parent[d] \notin removed
    BY <2>2 DEF RemovedBottomUp
  <2>4. \A x \in Folders : Reached[x] <=> x \in openable /\ Visible(x)
    BY ReachedDef DEF TypeOK
  <2>5. Reached[parent[d]] /\ (recursive \/ parent[d] = Root)
    BY <2>1, <2>4 DEF Visible
  <2>6. parent[d] \in openable
    BY <2>2, <2>4, <2>5
  <2>7. parent[d] \in {Root} \cup Range(folders)
    BY <2>2, <2>3, <2>5
  <2>8. Entered(parent[d])
    BY <2>5, <2>6, <2>7 DEF Entered
  <2> QED
    BY <2>1, <2>2, <2>8 DEF FoldersComplete
<1>3. A = Nat
  <2>1. A \in SUBSET Nat
    OBVIOUS
  <2> HIDE DEF A
  <2> QED
    BY <1>1, <1>2, <2>1, SetInduction
<1> SUFFICES ASSUME NEW d \in Folders \ removed PROVE Found(d)
  OBVIOUS
<1>4. d \in Nat /\ d <= d
  BY Numbers DEF Folders
<1>5. d \in A
  BY <1>3, <1>4
<1> QED
  BY <1>4, <1>5

LEMMA EndsSearch == IInv /\ SearchDone => IInv'
<1> SUFFICES ASSUME IInv, SearchDone PROVE IInv'
  OBVIOUS
<1>1. /\ pc = "folders" /\ stack = <<>> /\ pc' = "files" /\ stack' = <<>>
      /\ folders' = Append(folders, Root)
      /\ UNCHANGED disk /\ removed' = removed /\ files' = files /\ listing' = listing
      /\ tried' = tried
      /\ files = {} /\ listing = {} /\ tried = <<>>
  BY DEF SearchDone, WithRoot, IInv
<1>2. TypeOK /\ TypeOK'
  BY NextType DEF Next, IInv
<1>3. RemovedBottomUp' /\ TriedInOrder'
  BY <1>1, Unchanged
<1>4. /\ parent' = parent /\ kind' = kind /\ Reached' = Reached
      /\ \A d : Visible(d)' <=> Visible(d)
  BY <1>1, SameDisk
<1>5. Searching /\ FoldersSound /\ folders \in Seq(Folders)
  BY <1>1 DEF IInv, TypeOK
<1>6. Range(folders') = Range(folders) \cup {Root} /\ IsInjective(folders')
  BY <1>1, <1>5, Numbers, AppendRange DEF Searching, FoldersSound
<1>7. FoldersSound'
  BY <1>4, <1>5, <1>6 DEF FoldersSound, Visible
<1>8. Range(tried') = {} /\ Awaiting' = {}
  BY <1>1 DEF Range, Awaiting
<1>9. FilesSound'
  <2>1. \A i \in DOMAIN folders' : folders'[i] = Root => i = Len(folders')
    <3>1. /\ Len(folders') \in DOMAIN folders' /\ folders'[Len(folders')] = Root
      BY <1>1, <1>5, AppendProperties
    <3> QED
      BY <1>6, <3>1 DEF IsInjective
  <2> QED
    BY <1>8, <2>1 DEF FilesSound, Candidates
<1>10. FilesComplete'
  <2>1. SUFFICES ASSUME NEW e \in Entries \ removed, Reached[parent[e]]
                 PROVE  parent[e] \in Range(folders')
    BY <1>1, <1>4 DEF FilesComplete
  <2>2. parent[e] \in Folders \ removed
    BY <1>2, <2>1 DEF TypeOK, DiskType, RemovedBottomUp, IInv
  <2>3. parent[e] # Root => kind[parent[e]] = "folder"
    BY <1>2, <2>1 DEF TypeOK, DiskType
  <2>4. parent[e] \in {Root} \cup Range(folders)
    BY <1>1, <1>2, <1>5, <2>1, <2>2, <2>3, AllFound DEF IInv, Searching
  <2> QED
    BY <1>6, <2>4
<1> QED
  BY <1>1, <1>2, <1>3, <1>7, <1>9, <1>10 DEF IInv

\* The next folder's files: its turn comes once, and the plugin folder's last.
LEMMA ListsFiles == IInv /\ GetFilesWildcard => IInv'
<1> SUFFICES ASSUME IInv, GetFilesWildcard PROVE IInv'
  OBVIOUS
<1> DEFINE h == Head(folders)
<1>1. /\ pc = "files" /\ files = {} /\ folders # <<>> /\ folders' = Tail(folders)
      /\ listing' = IF OpenDir(h) = <<>> THEN {} ELSE Listed(h)
      /\ UNCHANGED disk /\ removed' = removed /\ pc' = "listing" /\ stack' = stack
      /\ files' = {} /\ listing = {} /\ tried' = tried
  BY DEF GetFilesWildcard, IInv
<1>2. TypeOK /\ TypeOK'
  BY NextType DEF Next, IInv
<1>3. RemovedBottomUp' /\ TriedInOrder'
  BY <1>1, Unchanged
<1>4. /\ parent' = parent /\ kind' = kind /\ Reached' = Reached
      /\ \A d : Visible(d)' <=> Visible(d)
  BY <1>1, SameDisk
<1>5. /\ FoldersSound /\ FilesSound /\ FilesComplete
      /\ folders \in Seq(Folders)
  BY <1>1, <1>2 DEF IInv, TypeOK
<1>6. /\ Range(folders) = {h} \cup Range(folders')
      /\ IsInjective(folders') /\ h \notin Range(folders')
  BY <1>1, <1>5, TailRange DEF FoldersSound
<1>7. h \in Folders /\ Visible(h)
  BY <1>1, <1>5, <1>6, HeadTailProperties DEF FoldersSound
<1> HIDE DEF h
<1>8. FoldersSound'
  BY <1>4, <1>5, <1>6 DEF FoldersSound
<1>9. \A d \in Folders : Reached[d] <=> d \in openable /\ Visible(d)
  BY <1>2, ReachedDef DEF TypeOK
<1>10. \A f \in Awaiting' :
         /\ f \in Entries /\ kind[f] = "plugin" /\ parent[f] = h /\ h \in openable
  BY <1>1, <1>4, <1>7, OpenDirFrames DEF Listed, Awaiting
<1>11. h # Root \/ folders' = <<>>
  <2>1. h = Root => 1 = Len(folders)
    <3>1. 1 \in DOMAIN folders /\ h = folders[1]
      BY <1>1, <1>5, HeadTailProperties, EmptySeq DEF h
    <3> QED
      BY <1>5, <3>1 DEF FilesSound
  <2>2. folders' \in Seq(Folders) /\ Len(folders') = Len(folders) - 1
    BY <1>1, <1>5, HeadTailProperties
  <2>3. folders' # <<>> => Len(folders') # 0
    BY <2>2, EmptySeq
  <2> QED
    BY <2>1, <2>2, <2>3
<1>12. Candidates = Range(tried) /\ Candidates' = Awaiting' \cup Range(tried)
  BY <1>1 DEF Candidates, Awaiting
<1>13. FilesSound'
  <2>1. Awaiting' \cap Range(tried) = {}
    BY <1>5, <1>6, <1>10, <1>12 DEF FilesSound
  <2>2. ASSUME NEW f \in Awaiting'
        PROVE  /\ kind[f] = "plugin" /\ Reached[parent[f]]
               /\ parent[f] \notin Range(folders')
               /\ parent[f] = Root =>
                    folders' = <<>> /\ \A g \in Awaiting' : parent[g] = Root
    BY <1>6, <1>7, <1>9, <1>10, <1>11, <2>2
  <2>3. ASSUME NEW f \in Range(tried)
        PROVE  /\ kind[f] = "plugin" /\ Reached[parent[f]]
               /\ parent[f] \notin Range(folders')
               /\ parent[f] # Root
    BY <1>1, <1>5, <1>6, <1>12, <2>3 DEF FilesSound
  <2>4. \A i \in DOMAIN folders' : folders'[i] = Root => i = Len(folders')
    <3>1. /\ folders' \in Seq(Folders) /\ Len(folders') = Len(folders) - 1
          /\ \A i \in 1 .. Len(folders') : folders'[i] = folders[i + 1]
          /\ Len(folders) \in Nat
      BY <1>1, <1>5, HeadTailProperties
    <3>2. DOMAIN folders' = 1 .. Len(folders') /\ DOMAIN folders = 1 .. Len(folders)
      BY <1>5, <3>1, LenProperties
    <3>3. \A i \in DOMAIN folders' : i + 1 \in DOMAIN folders
      BY <3>1, <3>2
    <3> QED
      BY <1>5, <3>1, <3>2, <3>3 DEF FilesSound
  <2> QED
    BY <1>1, <1>4, <1>12, <2>1, <2>2, <2>3, <2>4 DEF FilesSound
<1>14. FilesComplete'
  <2>1. SUFFICES ASSUME NEW e \in Entries \ removed, kind[e] = "plugin",
                        Reached[parent[e]], parent[e] \notin Range(folders')
                 PROVE  e \in Awaiting' \cup Range(tried)
    BY <1>1, <1>4, <1>12 DEF FilesComplete
  <2>2. CASE parent[e] = h
    <3>1. h \in openable \ removed
      BY <1>7, <1>9, <2>1, <2>2 DEF RemovedBottomUp, IInv
    <3>2. OpenDir(h) # <<>>
      BY <3>1 DEF OpenDir
    <3> QED
      BY <1>1, <1>4, <2>1, <2>2, <3>2 DEF Listed, Awaiting
  <2>3. CASE parent[e] # h
    BY <1>5, <1>6, <1>12, <2>1, <2>3 DEF FilesComplete
  <2> QED
    BY <2>2, <2>3
<1> QED
  BY <1>1, <1>2, <1>3, <1>8, <1>13, <1>14 DEF IInv

\* An entry is passed over only if it is gone or no plugin.
LEMMA ListsEntry == IInv /\ ListEntry => IInv'
<1> SUFFICES ASSUME IInv, ListEntry PROVE IInv'
  OBVIOUS
<1>1. PICK e \in listing : /\ listing' = listing \ {e}
                           /\ files' = IF Passed(e) THEN files ELSE files \cup {e}
  BY DEF ListEntry
<1>2. /\ UNCHANGED disk /\ removed' = removed /\ pc = "listing" /\ pc' = pc
      /\ stack' = stack /\ folders' = folders /\ tried' = tried
  BY DEF ListEntry
<1>3. TypeOK /\ TypeOK'
  BY NextType DEF Next, IInv
<1>4. RemovedBottomUp' /\ FoldersSound' /\ TriedInOrder'
  BY <1>2, Unchanged
<1>5. parent' = parent /\ kind' = kind /\ Reached' = Reached
  BY <1>2, SameDisk
<1>6. FilesSound /\ FilesComplete
  BY <1>2 DEF IInv
<1>7. Awaiting' \subseteq Awaiting /\ Awaiting \subseteq Awaiting' \cup removed
  BY <1>1, <1>5 DEF Awaiting, Passed
<1>8. FilesSound'
  BY <1>2, <1>5, <1>6, <1>7 DEF FilesSound, Candidates
<1>9. FilesComplete'
  BY <1>2, <1>5, <1>6, <1>7 DEF FilesComplete, Candidates
<1> QED
  BY <1>2, <1>3, <1>4, <1>8, <1>9 DEF IInv

LEMMA EndsListing == IInv /\ ListDone => IInv'
<1> SUFFICES ASSUME IInv, ListDone PROVE IInv'
  OBVIOUS
<1>1. /\ pc = "listing" /\ listing = {} /\ pc' = "files"
      /\ UNCHANGED disk /\ removed' = removed /\ stack' = stack
      /\ folders' = folders /\ files' = files /\ listing' = listing /\ tried' = tried
  BY DEF ListDone
<1>2. TypeOK'
  BY NextType DEF Next, IInv
<1>3. RemovedBottomUp' /\ FoldersSound' /\ TriedInOrder'
  BY <1>1, Unchanged
<1>4. FilesSound' /\ FilesComplete'
  BY <1>1, SameDisk DEF IInv, FilesSound, FilesComplete, Candidates, Awaiting
<1> QED
  BY <1>1, <1>2, <1>3, <1>4 DEF IInv

LEMMA TriesFile == IInv /\ TryFile => IInv'
<1> SUFFICES ASSUME IInv, TryFile PROVE IInv'
  OBVIOUS
<1>1. PICK f \in files : tried' = Append(tried, f) /\ files' = files \ {f}
  BY DEF TryFile
<1>2. /\ UNCHANGED disk /\ removed' = removed /\ pc' = pc /\ stack' = stack
      /\ folders' = folders /\ listing' = listing
      /\ pc = "files" /\ listing = {}
  BY DEF TryFile, IInv
<1>3. TypeOK /\ TypeOK'
  BY NextType DEF Next, IInv
<1>4. RemovedBottomUp' /\ FoldersSound'
  BY <1>2, Unchanged
<1>5. parent' = parent /\ kind' = kind /\ Reached' = Reached
  BY <1>2, SameDisk
<1>6. /\ FilesSound /\ FilesComplete /\ TriedInOrder
      /\ Awaiting = files /\ Awaiting' = files'
  BY <1>2 DEF IInv, Awaiting
<1>7. tried \in Seq(Entries) /\ f \in Entries /\ f \notin Range(tried)
  BY <1>1, <1>3, <1>6 DEF TypeOK, FilesSound
<1>8. Range(tried') = Range(tried) \cup {f} /\ IsInjective(tried')
  BY <1>1, <1>6, <1>7, AppendRange DEF TriedInOrder
<1>9. Candidates' = Candidates
  BY <1>1, <1>6, <1>8 DEF Candidates
<1>10. /\ kind[f] = "plugin" /\ Reached[parent[f]]
       /\ parent[f] = Root \/ \A x \in Range(tried) : parent[x] # Root
  BY <1>1, <1>6 DEF FilesSound, Candidates
<1>11. TriedInOrder'
  <2>1. /\ DOMAIN tried = 1 .. Len(tried) /\ Len(tried) \in Nat
        /\ DOMAIN tried' = 1 .. Len(tried) + 1
        /\ \A i \in 1 .. Len(tried) : tried'[i] = tried[i]
        /\ tried'[Len(tried) + 1] = f
    BY <1>1, <1>7, AppendProperties, LenProperties
  <2>2. SUFFICES ASSUME NEW i \in DOMAIN tried'
                 PROVE  /\ kind[tried'[i]] = "plugin" /\ Reached[parent[tried'[i]]]
                        /\ \A j \in 1 .. i :
                             parent[tried'[j]] = Root => parent[tried'[i]] = Root
    BY <1>5, <1>8 DEF TriedInOrder
  <2>3. CASE i \in 1 .. Len(tried)
    <3>1. \A j \in 1 .. i : j \in 1 .. Len(tried) /\ tried'[j] = tried[j]
      BY <2>1, <2>3
    <3>2. /\ i \in DOMAIN tried /\ tried'[i] = tried[i]
      BY <2>1, <2>3
    <3> QED
      BY <1>6, <3>1, <3>2 DEF TriedInOrder
  <2>4. CASE i = Len(tried) + 1
    <3>1. \A j \in 1 .. i : j = i \/ tried'[j] \in Range(tried)
      BY <1>7, <2>1, <2>4, RangeMembers
    <3> QED
      BY <1>10, <2>1, <2>4, <3>1
  <2> QED
    BY <2>1, <2>2, <2>3, <2>4
<1>12. FilesSound'
  BY <1>1, <1>2, <1>5, <1>6, <1>8, <1>9 DEF FilesSound
<1>13. FilesComplete'
  BY <1>2, <1>5, <1>6, <1>9 DEF FilesComplete
<1> QED
  BY <1>2, <1>3, <1>4, <1>6, <1>11, <1>12, <1>13 DEF IInv

LEMMA Returns == IInv /\ LoadAllDone => IInv'
<1> SUFFICES ASSUME IInv, LoadAllDone PROVE IInv'
  OBVIOUS
<1>1. /\ pc = "files" /\ files = {} /\ folders = <<>> /\ pc' = "done"
      /\ UNCHANGED disk /\ removed' = removed /\ stack' = stack
      /\ folders' = folders /\ files' = files /\ listing' = listing
      /\ tried' = tried
  BY DEF LoadAllDone
<1>2. TypeOK'
  BY NextType DEF Next, IInv
<1>3. RemovedBottomUp' /\ FoldersSound' /\ TriedInOrder'
  BY <1>1, Unchanged
<1>4. FilesSound' /\ FilesComplete'
  BY <1>1, SameDisk DEF IInv, FilesSound, FilesComplete, Candidates, Awaiting
<1> QED
  BY <1>1, <1>2, <1>3, <1>4 DEF IInv

\* What goes away is nobody's folder.
LEMMA Removes == IInv /\ Remove => IInv'
<1> SUFFICES ASSUME IInv, Remove PROVE IInv'
  OBVIOUS
<1>1. PICK e \in Entries \ removed : Listed(e) = {} /\ removed' = removed \cup {e}
  BY DEF Remove
<1>2. /\ UNCHANGED disk /\ pc' = pc /\ stack' = stack
      /\ folders' = folders /\ files' = files /\ listing' = listing
      /\ tried' = tried
  BY DEF Remove
<1>3. TypeOK'
  BY NextType DEF Next, IInv
<1>4. FoldersSound' /\ TriedInOrder'
  BY <1>2, Unchanged
<1>5. /\ parent' = parent /\ kind' = kind /\ openable' = openable
      /\ recursive' = recursive /\ Reached' = Reached
  BY <1>2, SameDisk
<1>6. RemovedBottomUp'
  BY <1>1, <1>5 DEF IInv, RemovedBottomUp, Listed
<1>7. pc = "folders" => Searching'
  BY <1>1, <1>2, <1>5
  DEF IInv, Searching, FramesSound, FoldersComplete, Entered
<1>8. pc \in {"listing", "files", "done"} => FilesSound' /\ FilesComplete'
  BY <1>1, <1>2, <1>5 DEF IInv, FilesSound, FilesComplete, Candidates, Awaiting
<1> QED
  BY <1>2, <1>3, <1>4, <1>6, <1>7, <1>8 DEF IInv

LEMMA NextInv == IInv /\ [Next]_vars => IInv'
<1> SUFFICES ASSUME IInv, [Next]_vars PROVE IInv'
  OBVIOUS
<1>1. CASE ReadEntry
  BY <1>1, PassesOver, FindsFolder DEF ReadEntry
<1>2. CASE UNCHANGED vars
  <2>1. /\ UNCHANGED disk /\ removed' = removed /\ pc' = pc /\ stack' = stack
        /\ folders' = folders /\ files' = files /\ listing' = listing
      /\ tried' = tried
    BY <1>2 DEF vars
  <2>2. TypeOK'
    BY NextType DEF IInv
  <2>3. /\ parent' = parent /\ kind' = kind /\ openable' = openable
        /\ recursive' = recursive /\ Reached' = Reached
    BY <2>1, SameDisk
  <2>4. RemovedBottomUp' /\ FoldersSound' /\ TriedInOrder'
    BY <2>1, Unchanged
  <2>5. pc = "folders" => Searching'
    BY <2>1, <2>3 DEF IInv, Searching, FramesSound, FoldersComplete, Entered
  <2>6. pc \in {"listing", "files", "done"} => FilesSound' /\ FilesComplete'
    BY <2>1, <2>3 DEF IInv, FilesSound, FilesComplete, Candidates, Awaiting
  <2> QED
    BY <2>1, <2>2, <2>4, <2>5, <2>6 DEF IInv
<1> QED
  BY <1>1, <1>2, StartsSearch, ReturnsFromFolder, EndsSearch, ListsFiles, ListsEntry,
     EndsListing, TriesFile,
     Returns, Removes DEF Next

LEMMA Inductive == Spec => []IInv
BY InitInv, NextInv, PTL DEF Spec

-----------------------------------------------------------------------------
(* Theorems. *)

\* Whatever the tree looks like and whoever removes entries meanwhile: when LoadAll
\* returns, it has tried every plugin file that is still there in the plugin folder
\* or in a folder below it that the search covers.
THEOREM NoPluginMissed == Spec => []SearchComplete
<1>1. IInv => SearchComplete
  BY RangeMembers DEF IInv, SearchComplete, FilesComplete, Candidates, Awaiting, Range
<1> QED
  BY <1>1, Inductive, PTL

\* LoadAll tries no file twice and none that the search does not cover, and the
\* files of the plugin folder after all others, at every moment of the search.
THEOREM TriedOnceInOrder == Spec => []TriedInOrder
<1>1. IInv => TriedInOrder
  BY DEF IInv
<1> QED
  BY <1>1, Inductive, PTL
=============================================================================
