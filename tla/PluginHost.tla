----------------------------- MODULE PluginHost -----------------------------
(***************************************************************************)
(* The process around the server loop: main (src/main.cpp), the logger     *)
(* (base/logger.cpp), the search for plugins (base/path_unix.cpp), their   *)
(* libraries (base/dynamic_lib_unix.cpp, server_plugin/), and the Server   *)
(* from LoadPlugins to its destructor.  Module ServerLoop has the inside   *)
(* of Server::Run; here it makes and frees handlers until it returns.      *)
(*                                                                         *)
(* Every file is tried at most once, so that a plugin and the DynamicLib   *)
(* made for it are both named by the file.  Several files may be links to  *)
(* one library: dlopen() then returns one handle and counts.               *)
(***************************************************************************)
EXTENDS Integers, Sequences, FiniteSets, Functions

CONSTANTS
  Files,        \* directory entries below the plugin folder
  Libs,         \* libraries they may be links to
  Ports,        \* ports that plugins ask for, 0 among them
  MaxHandlers   \* bound: live handlers of one plugin

ASSUME HandlersAssumption == MaxHandlers \in Nat

VARIABLES
  logToFile, serverIp,   \* what the command line said
  disk,       \* [Files -> where it is, is it named *_plugin.so, its library]
  code,       \* [Libs -> what dlopen() and dlsym() find, and the port]
  pc,         \* where main is, or how the process ended
  logger,     \* what m_logger writes to, "none" when it is NULL
  buffered,   \* some output is still in the logger's stream
  toTry,      \* files that LoadAll has found and not tried yet
  turn,       \* how far LoadAll is with its current file
  inHand,     \* that file, while pluginDll holds its DynamicLib
  refs,       \* [Libs -> how often dlopen() without dlclose()]
  owners,     \* [Files -> shared_ptrs to the file's DynamicLib]
  plugins,    \* m_plugins
  inits,      \* plugins that InitPlugins has been through
  acceptors,  \* plugins that have an AcceptorSession
  handlers,   \* [Files -> 0..MaxHandlers]: their live protocol handlers
  logFn       \* the mapped libraries whose LogFn is Log and not NULL

outside == <<logToFile, serverIp, disk, code>>
trying  == <<toTry, turn, inHand>>
loaded  == <<refs, owners, plugins>>
running == <<inits, acceptors, handlers, logFn>>
vars    == <<outside, pc, logger, buffered, trying, loaded, running>>

Ips    == {"absent", "empty", "tooLong", "notAnIp", "valid"}
Places == {"root", "subfolder", "deeper"}
Kinds  == {"broken", "partial", "plugin"}
DiskType == [Files -> [place : Places, named : BOOLEAN, lib : Libs]]
CodeType == [Libs -> [kind : Kinds, port : Ports]]

Init ==
  /\ logToFile \in BOOLEAN /\ serverIp \in Ips
  /\ disk \in DiskType /\ code \in CodeType
  /\ pc = "start" /\ logger = "none" /\ buffered = FALSE
  /\ toTry = {} /\ turn = "next" /\ inHand = {}
  /\ refs = [l \in Libs |-> 0] /\ owners = [f \in Files |-> 0] /\ plugins = <<>>
  /\ inits = 0 /\ acceptors = {} /\ handlers = [f \in Files |-> 0]
  /\ logFn = {}

\* Log() writes an end of line, which flushes what was there before, and leaves
\* the text that follows in the stream.
Logs == buffered' = TRUE

-----------------------------------------------------------------------------
(* main up to LoadPlugins. *)

Usage ==   \* argc <= 1
  /\ pc = "start" /\ ~logToFile /\ serverIp = "absent"
  /\ pc' = "exited"
  /\ UNCHANGED <<outside, logger, buffered, trying, loaded, running>>

InitLog ==
  /\ pc = "start"
  /\ \/ pc' = "logging" /\ Logs /\ logger' = IF logToFile THEN "file" ELSE "cout"
     \/ logToFile /\ pc' = "exited" /\ UNCHANGED <<logger, buffered>>
  /\ UNCHANGED <<outside, trying, loaded, running>>

NoServerIp ==
  /\ pc = "logging" /\ serverIp = "absent"
  /\ Logs /\ pc' = "exited"
  /\ UNCHANGED <<outside, logger, trying, loaded, running>>

\* Folder::GetAllSubfolders (not recursive) and GetFilesWildcard; a folder that
\* cannot be opened has no files.
Found == { f \in Files : disk[f].named /\ disk[f].place # "deeper" }

LoadPlugins ==
  /\ pc = "logging" /\ serverIp # "absent"
  /\ Logs /\ pc' = "loading" /\ toTry' = Found
  /\ UNCHANGED <<outside, logger, turn, inHand, loaded, running>>

-----------------------------------------------------------------------------
(* PluginLoader::LoadAll: the turn of a file, with its shared_ptr pluginDll *)
(* and its unique_ptr plugin.                                              *)

\* The root folder is searched last; within a folder any order is possible.
Foremost(f) ==
  disk[f].place = "subfolder" \/ \A g \in toTry : disk[g].place = "root"

CodeOf(f)  == code[disk[f].lib]
Mapped(l)  == refs[l] > 0
IsValid(f) == CodeOf(f).kind = "plugin"   \* no function is missing

\* A shared_ptr to the DynamicLib of f goes, and the last one takes it along:
\* dlclose(), and a library that is not mapped any more forgets its LogFn.
Drop(f) ==
  /\ owners' = [owners EXCEPT ![f] = @ - 1]
  /\ refs' = [refs EXCEPT ![disk[f].lib] = IF owners[f] = 1 THEN @ - 1 ELSE @]
  /\ logFn' = { l \in logFn : refs'[l] > 0 }

NextFile(f) ==
  /\ pc = "loading" /\ turn = "next"
  /\ f \in toTry /\ Foremost(f)
  /\ toTry' = toTry \ {f}
  /\ Logs

BreaksOff(f) ==   \* mutant: break instead of continue
  /\ NextFile(f) /\ CodeOf(f).kind = "broken"
  /\ pc' = "init"
  /\ UNCHANGED <<outside, logger, turn, inHand, loaded, running>>

CantLoad(f) ==   \* dlopen() fails
  /\ NextFile(f) /\ CodeOf(f).kind = "broken"
  /\ UNCHANGED <<outside, pc, logger, turn, inHand, loaded, running>>

LoadLib(f) ==   \* pluginDll owns a new DynamicLib
  /\ NextFile(f) /\ CodeOf(f).kind # "broken"
  /\ refs' = [refs EXCEPT ![disk[f].lib] = @ + 1]
  /\ owners' = [owners EXCEPT ![f] = 1]
  /\ inHand' = {f} /\ turn' = "lib"
  /\ UNCHANGED <<outside, pc, logger, plugins, running>>

WrapPlainly(f) ==   \* mutant: m_lib is a plain pointer
  /\ turn = "lib" /\ turn' = "plugin"
  /\ UNCHANGED <<outside, pc, logger, buffered, toTry, inHand, loaded, running>>

WrapLib(f) ==   \* new DynamicPlugin(pluginDll), which copies it to m_lib
  /\ turn = "lib" /\ turn' = "plugin"
  /\ owners' = [owners EXCEPT ![f] = @ + 1]
  /\ UNCHANGED <<outside, pc, logger, buffered, toTry, inHand, refs, plugins, running>>

NotValid(f) ==   \* the unique_ptr deletes the plugin, and m_lib goes
  /\ turn = "plugin" /\ ~IsValid(f)
  /\ turn' = "end" /\ Drop(f) /\ Logs
  /\ UNCHANGED <<outside, pc, logger, toTry, inHand, plugins, inits, acceptors, handlers>>

AddUnasked(f) ==   \* mutant: IsValid() is not asked
  /\ turn = "plugin"
  /\ turn' = "end" /\ plugins' = Append(plugins, f)
  /\ UNCHANGED <<outside, pc, logger, buffered, toTry, inHand, refs, owners, running>>

AddPlugin(f) ==   \* plugin.release()
  /\ turn = "plugin" /\ IsValid(f)
  /\ turn' = "end" /\ plugins' = Append(plugins, f)
  /\ UNCHANGED <<outside, pc, logger, buffered, toTry, inHand, refs, owners, running>>

EndTurn(f) ==   \* pluginDll goes out of scope
  /\ turn = "end" /\ turn' = "next" /\ inHand' = {} /\ Drop(f)
  /\ UNCHANGED <<outside, pc, logger, buffered, toTry, plugins, inits, acceptors, handlers>>

LoadFile ==
  \/ \E f \in toTry : CantLoad(f) \/ LoadLib(f)
  \/ \E f \in inHand : WrapLib(f) \/ NotValid(f) \/ AddPlugin(f) \/ EndTurn(f)

HasLoadedPlugins == plugins # <<>>

LoadDone ==
  /\ pc = "loading" /\ turn = "next" /\ toTry = {}
  /\ pc' = IF HasLoadedPlugins THEN "init" ELSE "closing"
  /\ Logs /\ UNCHANGED <<outside, logger, trying, loaded, running>>

-----------------------------------------------------------------------------
(* Server::Run: InitPlugins, a step per plugin, and the loop. *)

Current == plugins[inits + 1]

\* The assertion in IPEndPoint's constructor.
BadLength == serverIp \in {"empty", "tooLong"}

\* DynamicPlugin::Initialize gives the library the host's Log.
InitializeNot(f) == UNCHANGED logFn   \* mutant
Initialize(f)    == logFn' = logFn \cup {disk[f].lib}

\* What a plugin of library l logs to: LogFn, or std::cerr.
PluginLog(l) == IF l \in logFn THEN logger ELSE "cerr"

\* IPEndPoint::IsValid, and bind() on a port that no other plugin has taken.
CanServe(f) ==
  /\ serverIp = "valid" /\ CodeOf(f).port # 0
  /\ \A g \in acceptors : CodeOf(g).port # CodeOf(f).port

InitPlugin ==
  /\ pc = "init" /\ inits < Len(plugins)
  /\ Initialize(Current)
  /\ \/ BadLength /\ pc' = "aborted" /\ UNCHANGED <<inits, acceptors>>
     \/ /\ ~BadLength /\ inits' = inits + 1 /\ UNCHANGED pc
        /\ \/ CanServe(Current) /\ acceptors' = acceptors \cup {Current}
           \/ UNCHANGED acceptors   \* socket(), bind() or listen() may fail anyway
  /\ Logs /\ UNCHANGED <<outside, logger, trying, loaded, handlers>>

EnterLoop ==
  /\ pc = "init" /\ inits = Len(plugins)
  /\ IF acceptors = {} THEN pc' = "closing" /\ Logs
                       ELSE pc' = "loop" /\ UNCHANGED buffered
  /\ UNCHANGED <<outside, logger, trying, loaded, running>>

NewHandler ==
  /\ pc = "loop"
  /\ \E f \in acceptors :
       /\ handlers[f] < MaxHandlers
       /\ handlers' = [handlers EXCEPT ![f] = @ + 1]
  /\ Logs /\ UNCHANGED <<outside, pc, logger, trying, loaded, inits, acceptors, logFn>>

FreeHandlerTwice ==   \* mutant: the session frees its handler, and again
  /\ pc = "loop"
  /\ \E f \in Files :
       /\ handlers[f] > 0
       /\ handlers' = [handlers EXCEPT ![f] = @ - 2]
  /\ Logs /\ UNCHANGED <<outside, pc, logger, trying, loaded, inits, acceptors, logFn>>

FreeHandler ==
  /\ pc = "loop"
  /\ \E f \in Files :
       /\ handlers[f] > 0
       /\ handlers' = [handlers EXCEPT ![f] = @ - 1]
  /\ Logs /\ UNCHANGED <<outside, pc, logger, trying, loaded, inits, acceptors, logFn>>

\* select() fails and Run returns, or a send() ends the process with SIGPIPE.
LeaveLoop ==
  /\ pc = "loop"
  /\ \/ pc' = "closing" /\ Logs
     \/ (\E f \in Files : handlers[f] > 0) /\ pc' = "killed" /\ UNCHANGED buffered
  /\ UNCHANGED <<outside, logger, trying, loaded, running>>

-----------------------------------------------------------------------------
(* Server::~Server and the end of main.  m_sessions is not gone through:    *)
(* sessions that are left when Run returns are never freed.                 *)

\* PluginLoader::UnloadAll, a step per plugin: ~DynamicPlugin, ~DynamicLib.
UnloadPlugin ==
  /\ pc = "closing" /\ plugins # <<>>
  /\ Drop(Head(plugins)) /\ plugins' = Tail(plugins)
  /\ UNCHANGED <<outside, pc, logger, buffered, trying, inits, acceptors, handlers>>

UninitLogFirst ==   \* mutant: the logger goes before the server
  /\ pc = "closing" /\ logger # "none"
  /\ logger' = "none" /\ buffered' = FALSE
  /\ pc' = IF plugins = <<>> THEN "exited" ELSE pc
  /\ UNCHANGED <<outside, trying, loaded, running>>

UninitLog ==
  /\ pc = "closing" /\ plugins = <<>>
  /\ logger' = "none" /\ buffered' = FALSE
  /\ pc' = "exited"
  /\ UNCHANGED <<outside, trying, loaded, running>>

Next ==
  \/ Usage \/ InitLog \/ NoServerIp \/ LoadPlugins
  \/ LoadFile \/ LoadDone
  \/ InitPlugin \/ EnterLoop \/ NewHandler \/ FreeHandler \/ LeaveLoop
  \/ UnloadPlugin \/ UninitLog

Spec == Init /\ [][Next]_vars

-----------------------------------------------------------------------------
(* Properties. *)

TypeOK ==
  /\ logToFile \in BOOLEAN /\ serverIp \in Ips
  /\ disk \in DiskType /\ code \in CodeType
  /\ pc \in {"start", "logging", "loading", "init", "loop", "closing",
             "exited", "aborted", "killed"}
  /\ logger \in {"none", "cout", "file"} /\ buffered \in BOOLEAN
  /\ toTry \subseteq Files /\ inHand \subseteq Files
  /\ turn \in {"next", "lib", "plugin", "end"}
  /\ refs \in [Libs -> Nat] /\ owners \in [Files -> 0 .. 2]
  /\ plugins \in Seq(Files) /\ inits \in Nat
  /\ acceptors \subseteq Files /\ handlers \in [Files -> 0 .. MaxHandlers]
  /\ logFn \subseteq Libs

\* The files whose DynamicLib is for library l.
Holders(l) == { f \in Range(plugins) \cup inHand : disk[f].lib = l }

\* dlopen() and dlclose() are called in pairs, although shared_ptrs count the owners
\* of each DynamicLib and dlopen() those of each library, to which several files
\* may be links: a library is open once for each plugin in m_plugins and for the file
\* that LoadAll has in hand, and not at all when main returns.
HandlesOwned ==
  /\ \A l \in Libs : refs[l] = Cardinality(Holders(l))
  /\ pc = "exited" => \A l \in Libs : refs[l] = 0

\* While Run may call into plugins, each that has an acceptor or a handler is
\* mapped and exports every function the host calls, so that no call goes
\* through NULL or into a library that was closed.
CallsLand ==
  pc \in {"init", "loop"} =>
    \A f \in Range(plugins) \cup acceptors \cup { g \in Files : handlers[g] > 0 } :
      Mapped(disk[f].lib) /\ IsValid(f)

\* Plugins keep the address of Log (RegisterLogFn), and Log asserts that there is
\* a logger: as long as a library is open there is one.
LoggerOutlivesPlugins == (\E l \in Libs : Mapped(l)) => logger # "none"

\* The "host registers its Log function for use in plugin, so all logs are written
\* to one log" (plugin_api/plugin.h:33): no handler is made before Initialize has
\* registered Log, and none is left without it by a library that was closed.
OneLog ==
  pc \in {"init", "loop"} =>
    \A f \in Files :
      f \in acceptors \/ handlers[f] > 0
        => logger # "none" /\ PluginLog(disk[f].lib) = logger

\* LoadAll loads every plugin of the folder and of its direct subfolders, however
\* many other files it meets.
AllLoaded ==
  pc \in {"init", "loop"} =>
    \A f \in Files :
      disk[f].named /\ disk[f].place # "deeper" /\ CodeOf(f).kind = "plugin"
        => f \in Range(plugins)

\* -logToFile logs "all output to a file" (main.cpp:8): when main returns, nothing
\* that was logged is left in the file's stream.
AllOutputLogged == pc = "exited" /\ logToFile => ~buffered

=============================================================================
