-------------------------- MODULE PluginHostProofs ---------------------------
(***************************************************************************)
(* What the process promises about libraries and the logger, for every     *)
(* file system, every set of libraries and every command line.             *)
(***************************************************************************)
EXTENDS PluginHost, FiniteSetTheorems, TLAPS

Loaded == Range(plugins)
Held   == Loaded \cup inHand

\* Nothing is loaded before LoadAll or after UnloadAll, and the logger is there
\* from InitLog to UninitLog.
LoggerInv ==
  /\ pc \notin {"start", "exited"} => logger # "none"
  /\ pc \in {"start", "logging", "exited"} => plugins = <<>>

\* LoadAll has one file in hand from dlopen() to the end of its turn; until the end the
\* file is not in m_plugins.
TurnInv ==
  /\ turn = "next" => inHand = {}
  /\ turn # "next" => pc = "loading" /\ \A f, g \in inHand : f = g
  /\ turn # "end" => inHand \cap Loaded = {}
  /\ inHand \cap toTry = {}

\* pluginDll is one owner, and m_lib of the plugin another.
OwnersInv ==
  \A f \in Files :
    owners[f] = (IF f \in inHand THEN 1 ELSE 0)
                + (IF f \in Loaded \/ (turn = "plugin" /\ f \in inHand) THEN 1 ELSE 0)

\* The files of a set that are links to one library.
LinksTo(d, l, S) == { f \in S : d[f].lib = l }

RefsInv ==
  /\ IsFiniteSet(Held)
  /\ \A l \in Libs : refs[l] = Cardinality(LinksTo(disk, l, Held))

\* m_plugins holds valid plugins, each once; what is still to be tried is not
\* among them.
PluginsInv ==
  /\ \A i, j \in DOMAIN plugins : i # j => plugins[i] # plugins[j]
  /\ \A f \in Loaded : IsValid(f)
  /\ toTry \cap Loaded = {}

\* Only plugins that were given Log have acceptors, and only what has an acceptor has handlers;
\* UnloadAll forgets neither, so this ends with Run.
UsersInv ==
  /\ pc = "loading" => acceptors = {}
  /\ pc # "closing" /\ pc # "exited" =>
       /\ acceptors \subseteq Loaded
       /\ \A f \in acceptors : disk[f].lib \in logFn
       /\ \A f \in Files : handlers[f] > 0 => f \in acceptors

WantedInv ==
  pc \in {"loading", "init", "loop"} =>
    \A f \in Files :
      /\ disk[f].named /\ disk[f].place # "deeper" /\ IsValid(f)
      => \/ f \in Loaded
         \/ pc = "loading" /\ (f \in toTry \/ (f \in inHand /\ turn # "end"))

HostInv ==
  /\ TypeOK /\ LoggerInv /\ TurnInv /\ OwnersInv /\ RefsInv
  /\ PluginsInv /\ UsersInv /\ WantedInv

-----------------------------------------------------------------------------

LEMMA RangeOfAppend ==
  ASSUME NEW s \in Seq(Files), NEW e \in Files
  PROVE  Range(Append(s, e)) = Range(s) \cup {e}
<1>1. DOMAIN Append(s, e) = 1 .. Len(s) + 1 /\ DOMAIN s = 1 .. Len(s) /\ Len(s) \in Nat
  OBVIOUS
<1>2. \A i \in 1 .. Len(s) : Append(s, e)[i] = s[i]
  OBVIOUS
<1>3. Append(s, e)[Len(s) + 1] = e
  OBVIOUS
<1>4. 1 .. Len(s) + 1 = (1 .. Len(s)) \cup {Len(s) + 1}
  BY <1>1
<1> QED
  BY <1>1, <1>2, <1>3, <1>4 DEF Range

LEMMA RangeOfTail ==
  ASSUME NEW s \in Seq(Files), s # <<>>,
         \A i, j \in DOMAIN s : i # j => s[i] # s[j]
  PROVE  /\ Range(Tail(s)) = Range(s) \ {Head(s)}
         /\ \A i, j \in DOMAIN Tail(s) : i # j => Tail(s)[i] # Tail(s)[j]
<1>1. /\ DOMAIN s = 1 .. Len(s) /\ Len(s) \in Nat /\ Len(s) > 0
      /\ DOMAIN Tail(s) = 1 .. Len(s) - 1
      /\ Head(s) = s[1]
  OBVIOUS
<1>2. \A i \in 1 .. Len(s) - 1 : Tail(s)[i] = s[i + 1] /\ i + 1 \in 2 .. Len(s)
  OBVIOUS
<1>3. \A i \in 2 .. Len(s) : i - 1 \in 1 .. Len(s) - 1 /\ Tail(s)[i - 1] = s[i]
  BY <1>1, <1>2
<1>4. \A i \in 1 .. Len(s) : i = 1 \/ i \in 2 .. Len(s)
  BY <1>1
<1>5. \A i \in 2 .. Len(s) : i \in 1 .. Len(s) /\ s[i] # s[1]
  BY <1>1
<1>6. Range(Tail(s)) \subseteq Range(s) \ {Head(s)}
  BY <1>1, <1>2, <1>5 DEF Range
<1>7. Range(s) \ {Head(s)} \subseteq Range(Tail(s))
  <2> SUFFICES ASSUME NEW x \in Range(s), x # Head(s) PROVE x \in Range(Tail(s))
    OBVIOUS
  <2>1. PICK i \in 1 .. Len(s) : x = s[i]
    BY <1>1 DEF Range
  <2>2. i \in 2 .. Len(s)
    BY <1>1, <1>4, <2>1
  <2>3. i - 1 \in DOMAIN Tail(s) /\ x = Tail(s)[i - 1]
    BY <1>1, <1>3, <2>1, <2>2
  <2> QED
    BY <2>3, Zenon DEF Range
<1>8. \A i, j \in DOMAIN Tail(s) : i # j => Tail(s)[i] # Tail(s)[j]
  BY <1>1, <1>2
<1> QED
  BY <1>6, <1>7, <1>8

\* One more file for library l, or one less.
LEMMA LinksAdded ==
  ASSUME NEW d, NEW S, IsFiniteSet(S), NEW f, f \notin S, NEW l
  PROVE  /\ Cardinality(LinksTo(d, l, S)) \in Nat
         /\ Cardinality(LinksTo(d, l, S \cup {f})) =
              IF d[f].lib = l THEN Cardinality(LinksTo(d, l, S)) + 1
                              ELSE Cardinality(LinksTo(d, l, S))
<1> DEFINE T == LinksTo(d, l, S)
           U == LinksTo(d, l, S \cup {f})
<1>1. T \subseteq S /\ f \notin T
  BY DEF LinksTo
<1>2. IsFiniteSet(T)
  BY <1>1, FS_Subset
<1>3. Cardinality(T) \in Nat
  BY <1>2, FS_CardinalityType
<1>4. CASE d[f].lib = l
  <2>1. U = T \cup {f}
    BY <1>4 DEF LinksTo
  <2>2. Cardinality(T \cup {f}) = Cardinality(T) + 1
    BY <1>1, <1>2, FS_AddElement
  <2> QED
    BY <1>3, <1>4, <2>1, <2>2
<1>5. CASE d[f].lib # l
  <2>1. U = T
    BY <1>5 DEF LinksTo
  <2> QED
    BY <1>3, <1>5, <2>1
<1> QED
  BY <1>4, <1>5

\* dlopen() and dlclose() follow what LoadAll and m_plugins hold.
LEMMA RefsFollow ==
  ASSUME TypeOK, RefsInv, UNCHANGED outside, NEW f \in Files,
         \/ /\ f \notin Held /\ Held' = Held \cup {f}
            /\ refs' = [refs EXCEPT ![disk[f].lib] = @ + 1]
         \/ /\ f \in Held /\ Held' = Held \ {f}
            /\ refs' = [refs EXCEPT ![disk[f].lib] = @ - 1]
         \/ Held' = Held /\ refs' = refs
  PROVE  RefsInv' /\ refs' \in [Libs -> Nat]
<1>1. PICK S : S = Held
  OBVIOUS
<1>2. PICK d : d = disk
  OBVIOUS
<1>3. PICK R : R = Held'
  OBVIOUS
<1>4. /\ refs \in [Libs -> Nat] /\ disk[f].lib \in Libs /\ disk' = disk
      /\ IsFiniteSet(S) /\ \A l \in Libs : refs[l] = Cardinality(LinksTo(d, l, S))
  BY <1>1, <1>2 DEF TypeOK, DiskType, RefsInv, outside
<1>5. SUFFICES /\ IsFiniteSet(R) /\ refs' \in [Libs -> Nat]
               /\ \A l \in Libs : refs'[l] = Cardinality(LinksTo(d, l, R))
  BY <1>2, <1>3, <1>4 DEF RefsInv
<1>6. CASE f \notin S /\ R = S \cup {f} /\ refs' = [refs EXCEPT ![d[f].lib] = @ + 1]
  <2>1. IsFiniteSet(R)
    BY <1>4, <1>6, FS_AddElement
  <2>2. \A l \in Libs : /\ Cardinality(LinksTo(d, l, S)) \in Nat
                        /\ Cardinality(LinksTo(d, l, R)) =
                             IF d[f].lib = l THEN Cardinality(LinksTo(d, l, S)) + 1
                                             ELSE Cardinality(LinksTo(d, l, S))
    BY <1>4, <1>6, LinksAdded
  <2>3. d[f].lib \in Libs
    BY <1>2, <1>4
  <2>4. \A l \in Libs : refs'[l] = IF l = d[f].lib THEN refs[l] + 1 ELSE refs[l]
    BY <1>4, <1>6, <2>3
  <2>5. refs' \in [Libs -> Nat]
    BY <1>4, <1>6, <2>3
  <2>6. \A l \in Libs : refs'[l] = Cardinality(LinksTo(d, l, R))
    BY <1>4, <2>2, <2>4
  <2> QED
    BY <2>1, <2>5, <2>6
<1>7. CASE f \in S /\ R = S \ {f} /\ refs' = [refs EXCEPT ![d[f].lib] = @ - 1]
  <2>1. IsFiniteSet(R) /\ f \notin R /\ S = R \cup {f}
    BY <1>4, <1>7, FS_Subset
  <2>2. \A l \in Libs : /\ Cardinality(LinksTo(d, l, R)) \in Nat
                        /\ Cardinality(LinksTo(d, l, S)) =
                             IF d[f].lib = l THEN Cardinality(LinksTo(d, l, R)) + 1
                                             ELSE Cardinality(LinksTo(d, l, R))
    BY <2>1, LinksAdded
  <2>3. d[f].lib \in Libs
    BY <1>2, <1>4
  <2>4. \A l \in Libs : refs'[l] = IF l = d[f].lib THEN refs[l] - 1 ELSE refs[l]
    BY <1>4, <1>7, <2>3
  <2>5. \A l \in Libs : refs[l] = IF l = d[f].lib THEN Cardinality(LinksTo(d, l, R)) + 1
                                                  ELSE Cardinality(LinksTo(d, l, R))
    BY <1>4, <2>2
  <2>6. \A l \in Libs : refs'[l] = Cardinality(LinksTo(d, l, R)) /\ refs'[l] \in Nat
    BY <2>2, <2>4, <2>5
  <2>7. refs' \in [Libs -> Nat]
    <3>1. refs' = [l \in Libs |-> refs'[l]]
      BY <1>4, <1>7
    <3> QED
      BY <2>6, <3>1
  <2> QED
    BY <2>1, <2>6, <2>7
<1>8. CASE R = S /\ refs' = refs
  BY <1>4, <1>8
<1> QED
  BY <1>1, <1>2, <1>3, <1>6, <1>7, <1>8

LEMMA InitHost == Init => HostInv
<1> SUFFICES ASSUME Init PROVE HostInv
  OBVIOUS
<1>1. TypeOK
  <2>1. handlers \in [Files -> 0 .. MaxHandlers]
    BY HandlersAssumption DEF Init
  <2>2. plugins \in Seq(Files) /\ inits \in Nat
    BY DEF Init
  <2>3. disk \in DiskType /\ code \in CodeType
    BY DEF Init
  <2>4. refs \in [Libs -> Nat] /\ owners \in [Files -> 0 .. 2]
    BY DEF Init
  <2> QED
    BY <2>1, <2>2, <2>3, <2>4 DEF Init, TypeOK
<1>2. DOMAIN plugins = {} /\ Loaded = {} /\ Held = {}
  BY DEF Init, Loaded, Held, Range
<1>3. PluginsInv
  BY <1>2 DEF Init, PluginsInv
<1>4. LoggerInv /\ TurnInv /\ OwnersInv /\ WantedInv
  BY <1>2 DEF Init, LoggerInv, TurnInv, OwnersInv, WantedInv
<1>5. UsersInv
  BY DEF Init, UsersInv
<1>6. RefsInv
  <2>1. \A l \in Libs : LinksTo(disk, l, {}) = {}
    BY DEF LinksTo
  <2> QED
    BY <1>2, <2>1, FS_EmptySet DEF Init, RefsInv
<1> QED
  BY <1>1, <1>3, <1>4, <1>5, <1>6 DEF HostInv

-----------------------------------------------------------------------------

\* Steps that leave the libraries and m_plugins alone.
LEMMA LoadedKept ==
  ASSUME HostInv, UNCHANGED <<outside, turn, inHand, loaded>>,
         turn # "next" => pc' = "loading",
         toTry' \subseteq toTry \/ Held = {}
  PROVE  TurnInv' /\ OwnersInv' /\ RefsInv' /\ PluginsInv' /\ Loaded' = Loaded
<1>1. /\ UNCHANGED <<disk, code, turn, inHand, refs, owners, plugins>>
      /\ Loaded' = Loaded /\ Held' = Held
  BY DEF outside, loaded, Loaded, Held
<1> QED
  BY <1>1
  DEF HostInv, TurnInv, OwnersInv, RefsInv, PluginsInv, Held, IsValid, CodeOf

\* Steps that leave the plugins, their acceptors and their handlers alone.
LEMMA QuietStep ==
  ASSUME HostInv,
         \/ Usage \/ InitLog \/ NoServerIp \/ LoadPlugins \/ LoadDone
         \/ EnterLoop \/ LeaveLoop \/ UninitLog
  PROVE  HostInv'
<1>1. UNCHANGED <<outside, turn, inHand, loaded, running>> /\ turn = "next"
  <2>1. pc # "loading" \/ LoadDone
    BY DEF Usage, InitLog, NoServerIp, LoadPlugins, LoadDone, EnterLoop, LeaveLoop,
           UninitLog
  <2> QED
    BY <2>1
    DEF HostInv, TurnInv, Usage, InitLog, NoServerIp, LoadPlugins, LoadDone,
        EnterLoop, LeaveLoop, UninitLog, loaded, trying
<1>2. toTry' = toTry \/ (LoadPlugins /\ toTry' = Found)
  BY DEF Usage, InitLog, NoServerIp, LoadPlugins, LoadDone, EnterLoop, LeaveLoop,
         UninitLog, trying
<1>3. TypeOK'
  BY <1>1, <1>2
  DEF HostInv, TypeOK, outside, loaded, running, Usage, InitLog, NoServerIp,
      LoadPlugins, LoadDone, EnterLoop, LeaveLoop, UninitLog, Logs, Found
<1>4. plugins = <<>> => Held = {}
  BY <1>1 DEF HostInv, TurnInv, Held, Loaded, Range
<1>5. LoggerInv'
  BY <1>1, <1>4
  DEF HostInv, LoggerInv, loaded, Usage, InitLog, NoServerIp, LoadPlugins,
      LoadDone, EnterLoop, LeaveLoop, UninitLog
<1>6. TurnInv' /\ OwnersInv' /\ RefsInv' /\ PluginsInv' /\ Loaded' = Loaded
  BY <1>1, <1>2, <1>4, LoadedKept DEF HostInv, LoggerInv, LoadPlugins
<1>7. UsersInv'
  BY <1>1, <1>4, <1>6
  DEF HostInv, LoggerInv, UsersInv, Held, outside, running, Usage, InitLog,
      NoServerIp, LoadPlugins, LoadDone, EnterLoop, LeaveLoop, UninitLog
<1>8. WantedInv'
  BY <1>1, <1>6
  DEF HostInv, TurnInv, WantedInv, outside, IsValid, CodeOf, Found, Usage, InitLog,
      NoServerIp, LoadPlugins, LoadDone, EnterLoop, LeaveLoop, UninitLog, trying
<1> QED
  BY <1>3, <1>5, <1>6, <1>7, <1>8 DEF HostInv

-----------------------------------------------------------------------------
(* A turn of LoadAll. *)

LEMMA CantLoadStep == ASSUME HostInv, NEW f \in toTry, CantLoad(f) PROVE HostInv'
<1>1. /\ UNCHANGED <<outside, pc, logger, turn, inHand, loaded, running>>
      /\ pc = "loading" /\ buffered' \in BOOLEAN
      /\ toTry' = toTry \ {f} /\ ~IsValid(f) /\ f \in Files
  BY DEF CantLoad, NextFile, Logs, IsValid, HostInv, TypeOK
<1>2. TypeOK'
  BY <1>1 DEF HostInv, TypeOK, outside, loaded, running
<1>3. TurnInv' /\ OwnersInv' /\ RefsInv' /\ PluginsInv' /\ Loaded' = Loaded
  BY <1>1, LoadedKept
<1>4. LoggerInv' /\ UsersInv'
  BY <1>1, <1>3 DEF HostInv, LoggerInv, UsersInv, outside, loaded, running
<1>5. WantedInv'
  BY <1>1, <1>3 DEF HostInv, WantedInv, IsValid, CodeOf, outside
<1> QED
  BY <1>2, <1>3, <1>4, <1>5 DEF HostInv

LEMMA LoadLibStep == ASSUME HostInv, NEW f \in toTry, LoadLib(f) PROVE HostInv'
<1>1. /\ UNCHANGED <<outside, pc, logger, plugins, running>>
      /\ pc = "loading" /\ turn = "next" /\ buffered' \in BOOLEAN
      /\ toTry' = toTry \ {f} /\ f \in Files
      /\ refs' = [refs EXCEPT ![disk[f].lib] = @ + 1]
      /\ owners' = [owners EXCEPT ![f] = 1]
      /\ inHand' = {f} /\ turn' = "lib"
  BY DEF LoadLib, NextFile, Logs, HostInv, TypeOK
<1>2. Loaded' = Loaded /\ inHand = {} /\ f \notin Loaded
  BY <1>1 DEF HostInv, TurnInv, PluginsInv, Loaded
<1>3. f \notin Held /\ Held' = Held \cup {f}
  BY <1>1, <1>2 DEF Held
<1>4. RefsInv' /\ refs' \in [Libs -> Nat]
  BY <1>1, <1>3, RefsFollow DEF HostInv
<1>5. TypeOK'
  BY <1>1, <1>4 DEF HostInv, TypeOK, outside, running
<1>6. TurnInv' /\ PluginsInv'
  BY <1>1, <1>2 DEF HostInv, TurnInv, PluginsInv, IsValid, CodeOf, outside
<1>7. OwnersInv'
  BY <1>1, <1>2 DEF HostInv, TypeOK, OwnersInv
<1>8. LoggerInv' /\ UsersInv' /\ WantedInv'
  BY <1>1, <1>2
  DEF HostInv, LoggerInv, UsersInv, WantedInv, IsValid, CodeOf, outside, running
<1> QED
  BY <1>4, <1>5, <1>6, <1>7, <1>8 DEF HostInv

LEMMA WrapLibStep == ASSUME HostInv, NEW f \in inHand, WrapLib(f) PROVE HostInv'
<1>1. /\ UNCHANGED <<outside, pc, logger, buffered, toTry, inHand, refs, plugins, running>>
      /\ turn = "lib" /\ turn' = "plugin"
      /\ owners' = [owners EXCEPT ![f] = @ + 1]
  BY DEF WrapLib
<1>2. /\ Loaded' = Loaded /\ Held' = Held /\ f \in Files /\ inHand \cap Loaded = {}
      /\ \A g \in inHand : g = f
  BY <1>1 DEF HostInv, TypeOK, TurnInv, Loaded, Held
<1>3. owners[f] = 1 /\ owners \in [Files -> 0 .. 2]
  BY <1>1, <1>2 DEF HostInv, TypeOK, OwnersInv
<1>4. RefsInv'
  BY <1>1, <1>2 DEF HostInv, RefsInv, outside
<1>5. TypeOK'
  BY <1>1, <1>3 DEF HostInv, TypeOK, outside, running
<1>6. TurnInv' /\ PluginsInv'
  BY <1>1, <1>2 DEF HostInv, TurnInv, PluginsInv, IsValid, CodeOf, outside
<1>7. OwnersInv'
  BY <1>1, <1>2, <1>3 DEF HostInv, OwnersInv
<1>8. LoggerInv' /\ UsersInv' /\ WantedInv'
  BY <1>1, <1>2
  DEF HostInv, LoggerInv, UsersInv, WantedInv, IsValid, CodeOf, outside, running
<1> QED
  BY <1>4, <1>5, <1>6, <1>7, <1>8 DEF HostInv

LEMMA NotValidStep == ASSUME HostInv, NEW f \in inHand, NotValid(f) PROVE HostInv'
<1>1. /\ UNCHANGED <<outside, pc, logger, toTry, inHand, plugins, inits, acceptors, handlers>>
      /\ turn = "plugin" /\ turn' = "end" /\ ~IsValid(f) /\ buffered' \in BOOLEAN
      /\ owners' = [owners EXCEPT ![f] = @ - 1]
      /\ refs' = [refs EXCEPT ![disk[f].lib] = IF owners[f] = 1 THEN @ - 1 ELSE @]
      /\ logFn' \subseteq logFn
  BY DEF NotValid, Drop, Logs
<1>2. /\ Loaded' = Loaded /\ Held' = Held /\ f \in Files /\ f \notin Loaded
      /\ pc = "loading" /\ \A g \in inHand : g = f
  BY <1>1 DEF HostInv, TypeOK, TurnInv, Loaded, Held
<1>3. owners[f] = 2 /\ owners \in [Files -> 0 .. 2]
  BY <1>1, <1>2 DEF HostInv, TypeOK, OwnersInv
<1>4. refs' = refs
  BY <1>1, <1>3 DEF HostInv, TypeOK
<1>5. RefsInv'
  BY <1>1, <1>2, <1>4 DEF HostInv, RefsInv, outside
<1>6. TypeOK'
  <2>1. owners' \in [Files -> 0 .. 2]
    BY <1>1, <1>2, <1>3
  <2>2. refs' \in [Libs -> Nat] /\ logFn' \subseteq Libs
    BY <1>1, <1>4 DEF HostInv, TypeOK
  <2> QED
    BY <1>1, <2>1, <2>2 DEF HostInv, TypeOK, outside
<1>7. TurnInv' /\ PluginsInv'
  BY <1>1, <1>2 DEF HostInv, TurnInv, PluginsInv, IsValid, CodeOf, outside
<1>8. OwnersInv'
  BY <1>1, <1>2, <1>3 DEF HostInv, OwnersInv
<1>9. LoggerInv' /\ UsersInv' /\ WantedInv'
  BY <1>1, <1>2
  DEF HostInv, LoggerInv, UsersInv, WantedInv, IsValid, CodeOf, outside
<1> QED
  BY <1>5, <1>6, <1>7, <1>8, <1>9 DEF HostInv

LEMMA AddPluginStep == ASSUME HostInv, NEW f \in inHand, AddPlugin(f) PROVE HostInv'
<1>1. /\ UNCHANGED <<outside, pc, logger, buffered, toTry, inHand, refs, owners, running>>
      /\ turn = "plugin" /\ turn' = "end" /\ IsValid(f)
      /\ plugins' = Append(plugins, f)
  BY DEF AddPlugin
<1>2. /\ plugins \in Seq(Files) /\ f \in Files /\ f \notin Loaded /\ f \notin toTry
      /\ pc = "loading" /\ \A g \in inHand : g = f
  BY <1>1 DEF HostInv, TypeOK, TurnInv
<1>3. Loaded' = Loaded \cup {f} /\ Held' = Held /\ plugins' \in Seq(Files)
  BY <1>1, <1>2, RangeOfAppend DEF Loaded, Held
<1>4. \A i, j \in DOMAIN plugins' : i # j => plugins'[i] # plugins'[j]
  <2>1. /\ DOMAIN plugins = 1 .. Len(plugins) /\ Len(plugins) \in Nat
        /\ DOMAIN Append(plugins, f) = 1 .. Len(plugins) + 1
        /\ Append(plugins, f)[Len(plugins) + 1] = f
        /\ \A i \in 1 .. Len(plugins) : Append(plugins, f)[i] = plugins[i]
    BY <1>2
  <2>2. \A i \in 1 .. Len(plugins) : plugins[i] # f
    BY <1>2, <2>1 DEF Loaded, Range
  <2>3. \A i \in 1 .. Len(plugins) + 1 :
          i \in 1 .. Len(plugins) \/ i = Len(plugins) + 1
    BY <2>1
  <2>4. \A i, j \in 1 .. Len(plugins) : i # j => plugins[i] # plugins[j]
    BY <2>1 DEF HostInv, PluginsInv
  <2>5. \A i, j \in DOMAIN Append(plugins, f) :
          i # j => Append(plugins, f)[i] # Append(plugins, f)[j]
    BY <2>1, <2>2, <2>3, <2>4
  <2> QED
    BY <1>1, <2>5
<1>5. RefsInv'
  BY <1>1, <1>3 DEF HostInv, RefsInv, outside
<1>6. TypeOK'
  BY <1>1, <1>3 DEF HostInv, TypeOK, outside, running
<1>7. TurnInv' /\ PluginsInv'
  BY <1>1, <1>2, <1>3, <1>4 DEF HostInv, TurnInv, PluginsInv, IsValid, CodeOf, outside
<1>8. OwnersInv'
  BY <1>1, <1>2, <1>3 DEF HostInv, OwnersInv
<1>9. LoggerInv' /\ UsersInv' /\ WantedInv'
  BY <1>1, <1>2, <1>3
  DEF HostInv, LoggerInv, UsersInv, WantedInv, IsValid, CodeOf, outside, running
<1> QED
  BY <1>5, <1>6, <1>7, <1>8, <1>9 DEF HostInv

LEMMA EndTurnStep == ASSUME HostInv, NEW f \in inHand, EndTurn(f) PROVE HostInv'
<1>1. /\ UNCHANGED <<outside, pc, logger, buffered, toTry, plugins, inits, acceptors, handlers>>
      /\ turn = "end" /\ turn' = "next" /\ inHand' = {}
      /\ owners' = [owners EXCEPT ![f] = @ - 1]
      /\ refs' = [refs EXCEPT ![disk[f].lib] = IF owners[f] = 1 THEN @ - 1 ELSE @]
      /\ logFn' \subseteq logFn
  BY DEF EndTurn, Drop
<1>2. /\ Loaded' = Loaded /\ f \in Files /\ pc = "loading" /\ \A g \in inHand : g = f
  BY <1>1 DEF HostInv, TypeOK, TurnInv, Loaded
<1>3. /\ owners[f] = IF f \in Loaded THEN 2 ELSE 1
      /\ owners \in [Files -> 0 .. 2]
  BY <1>1, <1>2 DEF HostInv, TypeOK, OwnersInv
<1>4. RefsInv' /\ refs' \in [Libs -> Nat]
  <2>1. CASE f \in Loaded
    <3>1. Held' = Held /\ refs' = refs
      BY <1>1, <1>2, <1>3, <2>1 DEF HostInv, TypeOK, Held
    <3> QED
      BY <1>1, <1>2, <3>1, RefsFollow DEF HostInv
  <2>2. CASE f \notin Loaded
    <3>1. f \in Held /\ Held' = Held \ {f}
      BY <1>1, <1>2, <2>2 DEF Held
    <3>2. refs' = [refs EXCEPT ![disk[f].lib] = @ - 1]
      BY <1>1, <1>3, <2>2
    <3> QED
      BY <1>1, <1>2, <3>1, <3>2, RefsFollow DEF HostInv
  <2> QED
    BY <2>1, <2>2
<1>5. TypeOK'
  BY <1>1, <1>3, <1>4 DEF HostInv, TypeOK, outside
<1>6. TurnInv' /\ PluginsInv'
  BY <1>1, <1>2 DEF HostInv, TurnInv, PluginsInv, IsValid, CodeOf, outside
<1>7. OwnersInv'
  BY <1>1, <1>2, <1>3 DEF HostInv, OwnersInv
<1>8. LoggerInv' /\ UsersInv' /\ WantedInv'
  BY <1>1, <1>2
  DEF HostInv, LoggerInv, UsersInv, WantedInv, IsValid, CodeOf, outside
<1> QED
  BY <1>4, <1>5, <1>6, <1>7, <1>8 DEF HostInv

LEMMA LoadStep == ASSUME HostInv, LoadFile PROVE HostInv'
BY CantLoadStep, LoadLibStep, WrapLibStep, NotValidStep, AddPluginStep, EndTurnStep
DEF LoadFile

-----------------------------------------------------------------------------
(* The other steps. *)

LEMMA InitPluginStep == ASSUME HostInv, InitPlugin PROVE HostInv'
<1>1. /\ UNCHANGED <<outside, logger, trying, loaded, handlers>> /\ pc = "init"
      /\ logFn' = logFn \cup {disk[Current].lib}
      /\ pc' \in {"init", "aborted"} /\ buffered' \in BOOLEAN
  BY DEF InitPlugin, Logs, Initialize
<1>2. plugins \in Seq(Files) /\ inits \in Nat /\ inits < Len(plugins)
  BY DEF HostInv, TypeOK, InitPlugin
<1>3. inits + 1 \in DOMAIN plugins /\ Current \in Files /\ Current \in Loaded
  BY <1>2 DEF Current, Loaded, Range
<1>4. acceptors' = acceptors \/ acceptors' = acceptors \cup {Current}
  BY DEF InitPlugin
<1>5. TypeOK'
  BY <1>1, <1>2, <1>3, <1>4 DEF HostInv, TypeOK, DiskType, InitPlugin, outside, trying, loaded
<1>6. TurnInv' /\ OwnersInv' /\ RefsInv' /\ PluginsInv' /\ Loaded' = Loaded
  BY <1>1, LoadedKept DEF HostInv, TurnInv, trying
<1>7. LoggerInv'
  BY <1>1 DEF HostInv, LoggerInv, loaded
<1>8. UsersInv'
  BY <1>1, <1>3, <1>4, <1>6 DEF HostInv, UsersInv, outside
<1>9. WantedInv'
  BY <1>1, <1>6 DEF HostInv, WantedInv, IsValid, CodeOf, outside, trying
<1> QED
  BY <1>5, <1>6, <1>7, <1>8, <1>9 DEF HostInv

LEMMA HandlerStep == ASSUME HostInv, NewHandler \/ FreeHandler PROVE HostInv'
<1>1. /\ UNCHANGED <<outside, pc, logger, trying, loaded, inits, acceptors, logFn>>
      /\ pc = "loop" /\ buffered' \in BOOLEAN
  BY DEF NewHandler, FreeHandler, Logs
<1>2. handlers \in [Files -> 0 .. MaxHandlers] /\ acceptors \subseteq Files
  BY DEF HostInv, TypeOK
<1>3. /\ handlers' \in [Files -> 0 .. MaxHandlers]
      /\ \A f \in Files : handlers'[f] > 0 => handlers[f] > 0 \/ f \in acceptors
  <2>1. CASE NewHandler
    BY <1>2, <2>1, HandlersAssumption DEF NewHandler
  <2>2. CASE FreeHandler
    BY <1>2, <2>2, HandlersAssumption DEF FreeHandler
  <2> QED
    BY <2>1, <2>2
<1>4. TypeOK'
  BY <1>1, <1>3 DEF HostInv, TypeOK, outside, trying, loaded
<1>5. TurnInv' /\ OwnersInv' /\ RefsInv' /\ PluginsInv' /\ Loaded' = Loaded
  BY <1>1, LoadedKept DEF HostInv, TurnInv, trying
<1>6. LoggerInv' /\ WantedInv'
  BY <1>1, <1>5 DEF HostInv, LoggerInv, WantedInv, IsValid, CodeOf, outside, trying, loaded
<1>7. UsersInv'
  BY <1>1, <1>3, <1>5 DEF HostInv, UsersInv, outside
<1> QED
  BY <1>4, <1>5, <1>6, <1>7 DEF HostInv

LEMMA UnloadStep == ASSUME HostInv, UnloadPlugin PROVE HostInv'
<1> DEFINE f == Head(plugins)
<1>1. /\ UNCHANGED <<outside, pc, logger, buffered, trying, inits, acceptors, handlers>>
      /\ logFn' \subseteq logFn
      /\ pc = "closing" /\ plugins # <<>> /\ plugins' = Tail(plugins)
      /\ owners' = [owners EXCEPT ![f] = @ - 1]
      /\ refs' = [refs EXCEPT ![disk[f].lib] = IF owners[f] = 1 THEN @ - 1 ELSE @]
  BY DEF UnloadPlugin, Drop
<1>2. plugins \in Seq(Files) /\ plugins' \in Seq(Files)
  BY <1>1 DEF HostInv, TypeOK
<1>3. /\ Loaded' = Loaded \ {f}
      /\ \A i, j \in DOMAIN plugins' : i # j => plugins'[i] # plugins'[j]
  BY <1>1, <1>2, RangeOfTail DEF HostInv, PluginsInv, Loaded
<1>4. f \in Loaded /\ f \in Files
  <2>1. 1 \in DOMAIN plugins /\ f = plugins[1]
    BY <1>1, <1>2
  <2> QED
    BY <1>2, <2>1 DEF Loaded, Range
<1>5. turn = "next" /\ inHand = {} /\ UNCHANGED <<turn, inHand, toTry>>
  BY <1>1 DEF HostInv, TypeOK, TurnInv, trying
<1>6. f \in Held /\ Held' = Held \ {f}
  BY <1>3, <1>4, <1>5 DEF Held
<1>7. owners[f] = 1 /\ owners \in [Files -> 0 .. 2]
  BY <1>4, <1>5 DEF HostInv, TypeOK, OwnersInv
<1>8. RefsInv' /\ refs' \in [Libs -> Nat]
  <2>1. refs' = [refs EXCEPT ![disk[f].lib] = @ - 1]
    BY <1>1, <1>7
  <2>2. PICK g \in Files : g = f
    BY <1>4
  <2> HIDE DEF f
  <2> QED
    BY <1>1, <1>6, <2>1, <2>2, RefsFollow DEF HostInv
<1>9. TypeOK'
  BY <1>1, <1>2, <1>5, <1>7, <1>8 DEF HostInv, TypeOK, outside
<1>10. TurnInv' /\ PluginsInv'
  BY <1>1, <1>3, <1>5 DEF HostInv, TurnInv, PluginsInv, IsValid, CodeOf, outside
<1>11. OwnersInv'
  BY <1>1, <1>3, <1>4, <1>5, <1>7 DEF HostInv, OwnersInv
<1>12. LoggerInv' /\ UsersInv' /\ WantedInv'
  BY <1>1 DEF HostInv, LoggerInv, UsersInv, WantedInv
<1> QED
  BY <1>8, <1>9, <1>10, <1>11, <1>12 DEF HostInv

LEMMA NextHost == HostInv /\ [Next]_vars => HostInv'
<1> SUFFICES ASSUME HostInv, [Next]_vars PROVE HostInv'
  OBVIOUS
<1>1. CASE UNCHANGED vars
  <2>1. /\ UNCHANGED <<outside, pc, logger, buffered, turn, inHand, toTry, loaded, running>>
        /\ turn # "next" => pc = "loading"
    BY <1>1 DEF vars, trying, HostInv, TurnInv
  <2>2. TurnInv' /\ OwnersInv' /\ RefsInv' /\ PluginsInv' /\ Loaded' = Loaded
    BY <2>1, LoadedKept
  <2>3. TypeOK'
    BY <2>1 DEF HostInv, TypeOK, outside, loaded, running
  <2>4. LoggerInv' /\ UsersInv' /\ WantedInv'
    BY <2>1, <2>2
    DEF HostInv, LoggerInv, UsersInv, WantedInv, IsValid, CodeOf, outside, loaded, running
  <2> QED
    BY <2>2, <2>3, <2>4 DEF HostInv
<1> QED
  BY <1>1, QuietStep, LoadStep, InitPluginStep, HandlerStep, UnloadStep DEF Next

-----------------------------------------------------------------------------

LEMMA HostInvariant == Spec => []HostInv
BY InitHost, NextHost, PTL DEF Spec

\* A library is mapped as long as somebody holds a file of it.
LEMMA RefsRight ==
  ASSUME HostInv
  PROVE  /\ HandlesOwned
         /\ \A f \in Files : f \in Loaded => Mapped(disk[f].lib)
         /\ Held = {} => \A l \in Libs : ~Mapped(l)
<1>1. /\ IsFiniteSet(Held) /\ disk \in DiskType
      /\ \A l \in Libs : refs[l] = Cardinality(LinksTo(disk, l, Held)) /\ refs[l] \in Nat
  BY DEF HostInv, TypeOK, RefsInv
<1>2. \A l \in Libs : IsFiniteSet(LinksTo(disk, l, Held))
  <2>1. \A l \in Libs : LinksTo(disk, l, Held) \in SUBSET Held
    BY DEF LinksTo
  <2> QED
    BY <1>1, <2>1, FS_Subset
<1>3. \A l \in Libs : refs[l] = 0 <=> LinksTo(disk, l, Held) = {}
  BY <1>1, <1>2, FS_EmptySet
<1>4. \A f \in Files : f \in Loaded => Mapped(disk[f].lib)
  <2> SUFFICES ASSUME NEW f \in Files, f \in Loaded
               PROVE  Mapped(disk[f].lib)
    OBVIOUS
  <2>1. disk[f].lib \in Libs
    BY <1>1 DEF DiskType
  <2>2. f \in LinksTo(disk, disk[f].lib, Held)
    BY DEF LinksTo, Held
  <2> QED
    BY <1>1, <1>3, <2>1, <2>2 DEF Mapped
<1>5. Held = {} => \A l \in Libs : refs[l] = 0
  BY <1>3 DEF LinksTo
<1>6. pc = "exited" => Held = {}
  BY DEF HostInv, TypeOK, LoggerInv, TurnInv, Held, Loaded, Range
<1>7. HandlesOwned
  BY <1>1, <1>5, <1>6 DEF HandlesOwned, Holders, LinksTo, Held, Loaded
<1> QED
  BY <1>4, <1>5, <1>7 DEF Mapped

\* The state of the process is well typed: no plugin's handlers are freed more
\* often than they are made, and a DynamicLib has its owners counted right.
THEOREM HostTyped == Spec => []TypeOK
<1>1. HostInv => TypeOK
  BY DEF HostInv
<1> QED
  BY <1>1, HostInvariant, PTL

\* dlopen() and dlclose() are called in pairs: the counts of shared_ptrs and of
\* dlopen() keep each library open as often as LoadAll and m_plugins hold a file of it,
\* rejected files and links to one library included, and to the end only.
THEOREM LibrariesClosed == Spec => []HandlesOwned
<1>1. HostInv => HandlesOwned
  BY RefsRight
<1> QED
  BY <1>1, HostInvariant, PTL

\* No call from Run goes through NULL or into a closed library.
THEOREM CallsSafe == Spec => []CallsLand
<1>1. HostInv => CallsLand
  <2> SUFFICES ASSUME HostInv PROVE CallsLand
    OBVIOUS
  <2>1. Loaded \subseteq Files
    BY DEF HostInv, TypeOK, Loaded, Range
  <2>2. \A f \in Loaded : Mapped(disk[f].lib) /\ IsValid(f)
    BY <2>1, RefsRight DEF HostInv, PluginsInv
  <2> QED
    BY <2>2 DEF HostInv, UsersInv, CallsLand, Loaded
<1> QED
  BY <1>1, HostInvariant, PTL

\* Every plugin of the folder is loaded, whatever else the folder holds.
THEOREM PluginsLoaded == Spec => []AllLoaded
<1>1. HostInv => AllLoaded
  BY DEF HostInv, WantedInv, AllLoaded, IsValid, Loaded
<1> QED
  BY <1>1, HostInvariant, PTL

\* As long as a library is open, Log finds its logger.
THEOREM LoggerLasts == Spec => []LoggerOutlivesPlugins
<1>1. HostInv => LoggerOutlivesPlugins
  <2> SUFFICES ASSUME HostInv, logger = "none" PROVE LoggerOutlivesPlugins
    BY DEF LoggerOutlivesPlugins
  <2>1. Held = {}
    BY DEF HostInv, LoggerInv, TurnInv, TypeOK, Held, Loaded, Range
  <2> QED
    BY <2>1, RefsRight DEF LoggerOutlivesPlugins
<1> QED
  BY <1>1, HostInvariant, PTL

\* Whatever a handler logs goes to the host's log.
THEOREM LogsToHost == Spec => []OneLog
<1>1. HostInv => OneLog
  BY DEF HostInv, LoggerInv, UsersInv, OneLog, PluginLog
<1> QED
  BY <1>1, HostInvariant, PTL

=============================================================================
