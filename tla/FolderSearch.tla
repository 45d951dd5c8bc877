---------------------------- MODULE FolderSearch ----------------------------
(***************************************************************************)
(* The search for plugin files: Folder::GetAllSubfolders, its recursion    *)
(* included, and GetFilesWildcard (src/base/path_unix.cpp), as             *)
(* PluginLoader::LoadAll calls them.  Other processes may remove entries   *)
(* meanwhile.  PluginHost takes the outcome (Found, Foremost) for granted. *)
(*                                                                         *)
(* Entry 0 is the plugin folder; each other one is below a smaller one.    *)
(***************************************************************************)
EXTENDS Integers, Sequences, FiniteSets, Functions

CONSTANTS
  MaxEntries,   \* bound: entries below the plugin folder
  MaxRemoved    \* bound: entries that are removed

ASSUME EntriesAssumption == MaxEntries \in Nat /\ MaxRemoved \in Nat

Entries == 1 .. MaxEntries
Root    == 0

VARIABLES
  parent,      \* [Entries -> the folder the entry is in]
  kind,        \* [Entries -> "folder", "plugin", "other" or "dangling"]
  openable,    \* the folders that opendir() opens
  removed,     \* the entries removed meanwhile
  recursive,   \* GetAllSubfolders' argument, false in LoadAll
  pc,          \* "start", "folders", "listing", "files" or "done"
  stack,       \* the calls of GetAllSubfolders: its folder, its unread entries
  folders,     \* the vector of folders
  listing,     \* what GetFilesWildcard has not read yet of its folder
  files,       \* the files of the current folder that were not tried yet
  tried        \* the files tried, in order

disk == <<parent, kind, openable, recursive>>
vars == <<disk, removed, pc, stack, folders, listing, files, tried>>

Init ==
  /\ parent \in [Entries -> 0 .. MaxEntries]
  /\ kind \in [Entries -> {"folder", "plugin", "other", "dangling"}]
  /\ \A e \in Entries :
       parent[e] \in {Root} \cup { d \in 1 .. e - 1 : kind[d] = "folder" }
  /\ openable \in SUBSET ({Root} \cup { e \in Entries : kind[e] = "folder" })
  /\ recursive \in BOOLEAN
  /\ removed = {} /\ pc = "start" /\ stack = <<>>
  /\ folders = <<>> /\ listing = {} /\ files = {} /\ tried = <<>>

\* What readdir_r() will return of a folder, but for "." and "..".
Listed(d) == { e \in Entries \ removed : parent[e] = d }

\* opendir(); a folder that is gone or not readable has no entries.
OpenDir(d) ==
  IF d \in openable \ removed THEN << [dir |-> d, unread |-> Listed(d)] >> ELSE <<>>

GetAllSubfolders ==
  /\ pc = "start"
  /\ pc' = "folders" /\ stack' = OpenDir(Root)
  /\ UNCHANGED <<disk, removed, folders, listing, files, tried>>

\* fstatat() fails: the entry is skipped.  Mutant: the search ends there.
BreaksOff(e) ==
  /\ kind[e] = "dangling" \/ e \in removed
  /\ stack' = [stack EXCEPT ![1].unread = {}] /\ UNCHANGED folders
CannotStat(e) ==
  /\ kind[e] = "dangling" \/ e \in removed
  /\ stack' = [stack EXCEPT ![1].unread = @ \ {e}] /\ UNCHANGED folders

FoundFolder(e) ==
  /\ kind[e] = "folder" /\ e \notin removed
  /\ folders' = Append(folders, e)
  /\ stack' = (IF recursive THEN OpenDir(e) ELSE <<>>) \o
              [stack EXCEPT ![1].unread = @ \ {e}]

FoundFile(e) ==
  /\ kind[e] \in {"plugin", "other"} /\ e \notin removed
  /\ stack' = [stack EXCEPT ![1].unread = @ \ {e}] /\ UNCHANGED folders

ReadEntry ==
  /\ stack # <<>>
  /\ \E e \in stack[1].unread : CannotStat(e) \/ FoundFolder(e) \/ FoundFile(e)
  /\ UNCHANGED <<disk, removed, pc, listing, files, tried>>

\* closedir() and return.
CloseDir ==
  /\ stack # <<>> /\ stack[1].unread = {}
  /\ stack' = Tail(stack)
  /\ UNCHANGED <<disk, removed, pc, folders, listing, files, tried>>

\* LoadAll appends the plugin folder itself; the mutant puts it first.
WithRootFirst == <<Root>> \o folders
WithRoot == Append(folders, Root)

SearchDone ==
  /\ pc = "folders" /\ stack = <<>>
  /\ pc' = "files" /\ folders' = WithRoot
  /\ UNCHANGED <<disk, removed, stack, listing, files, tried>>

\* GetFilesWildcard of the next folder.
GetFilesWildcard ==
  /\ pc = "files" /\ files = {} /\ folders # <<>>
  /\ pc' = "listing" /\ folders' = Tail(folders)
  /\ listing' = IF OpenDir(Head(folders)) = <<>> THEN {} ELSE Listed(Head(folders))
  /\ UNCHANGED <<disk, removed, stack, files, tried>>

\* fstatat() fails, or a folder, or a name that fnmatch() does not accept.
Passed(e) == e \in removed \/ kind[e] # "plugin"

ListEntry ==
  /\ pc = "listing"
  /\ \E e \in listing :
       /\ listing' = listing \ {e}
       /\ files' = IF Passed(e) THEN files ELSE files \cup {e}
  /\ UNCHANGED <<disk, removed, pc, stack, folders, tried>>

\* closedir() and return.
ListDone ==
  /\ pc = "listing" /\ listing = {}
  /\ pc' = "files"
  /\ UNCHANGED <<disk, removed, stack, folders, listing, files, tried>>

TryFile ==
  /\ pc = "files"
  /\ \E f \in files : tried' = Append(tried, f) /\ files' = files \ {f}
  /\ UNCHANGED <<disk, removed, pc, stack, folders, listing>>

LoadAllDone ==
  /\ pc = "files" /\ files = {} /\ folders = <<>>
  /\ pc' = "done"
  /\ UNCHANGED <<disk, removed, stack, folders, listing, files, tried>>

\* Another process unlinks a file or an empty folder.
Remove ==
  /\ pc # "done" /\ Cardinality(removed) < MaxRemoved
  /\ \E e \in Entries \ removed : Listed(e) = {} /\ removed' = removed \cup {e}
  /\ UNCHANGED <<disk, pc, stack, folders, listing, files, tried>>

Next ==
  \/ GetAllSubfolders \/ ReadEntry \/ CloseDir \/ SearchDone
  \/ GetFilesWildcard \/ ListEntry \/ ListDone \/ TryFile \/ LoadAllDone
  \/ Remove

Spec == Init /\ [][Next]_vars

-----------------------------------------------------------------------------
\* The folders whose files a search of the whole tree can see.
Reached[d \in 0 .. MaxEntries] ==
  /\ d \in openable
  /\ d # Root => Reached[parent[d]] /\ (recursive \/ parent[d] = Root)

\* LoadAll tries every plugin file that is there throughout, in the plugin folder
\* or below it (one level unless recursive): a dangling link, a folder that does
\* not open or an entry that goes away meanwhile costs no other entry its turn.
SearchComplete ==
  pc = "done" =>
    { e \in Entries \ removed : kind[e] = "plugin" /\ Reached[parent[e]] }
      \subseteq Range(tried)

\* LoadAll tries no file twice, nothing but what the wildcard accepts, and the
\* plugin folder's own files last, those removed meanwhile included.
TriedInOrder ==
  /\ IsInjective(tried)
  /\ \A i \in DOMAIN tried :
       /\ kind[tried[i]] = "plugin" /\ Reached[parent[tried[i]]]
       /\ \A j \in 1 .. i : parent[tried[j]] = Root => parent[tried[i]] = Root
=============================================================================
