----------------------------- MODULE CommandLine -----------------------------
(***************************************************************************)
(* CommandLine::InitFromArgv, InitFromStringVec and ParseSwitch            *)
(* (src/base/command_line.cpp): a step per argument behind the program's   *)
(* name.  An argument is a sequence of characters; those that ParseSwitch  *)
(* tells apart are the prefix, the separator and all others.               *)
(***************************************************************************)
EXTENDS Integers, SequencesExt

CONSTANTS
  Others,    \* characters that are neither prefix nor separator
  MaxChars,  \* bound: length of an argument
  MaxArgs    \* bound: number of arguments

VARIABLES
  argv,      \* the arguments
  next,      \* arguments that were looked at
  value,     \* the value of the switch parsed last
  switches   \* m_switches

vars == <<argv, next, value, switches>>

kSwitchPrefix   == "-"
kValueSeparator == "="

Strings == UNION { [1 .. n -> Others \cup {kSwitchPrefix, kValueSeparator}]
                   : n \in 0 .. MaxChars }

Init ==
  /\ argv \in UNION { [1 .. n -> Strings] : n \in 0 .. MaxArgs }
  /\ next = 0 /\ value = <<>> /\ switches = <<>>

\* std::string::find, with 0 for npos.
Separator(command) == SelectInSeq(command, LAMBDA c : c = kValueSeparator)

IsSwitch(command) == command # <<>> /\ command[1] = kSwitchPrefix

SwitchStr(command) ==
  IF Separator(command) = 0 THEN Tail(command)
  ELSE SubSeq(command, 2, Separator(command) - 1)

\* The value is a new string in every turn, which ParseSwitch leaves alone when
\* there is no separator (value->empty() clears nothing).
StaleValue == value   \* mutant: the string is declared before the loop
FreshValue == <<>>

Value(command) ==
  IF Separator(command) = 0 THEN FreshValue
  ELSE SubSeq(command, Separator(command) + 1, Len(command))

HasSwitch(switchStr)   == switchStr \in DOMAIN switches
SwitchValue(switchStr) ==
  IF HasSwitch(switchStr) THEN switches[switchStr] ELSE <<>>

\* A turn of InitFromStringVec.  map::insert keeps what is there.
Turn ==
  /\ next < Len(argv)
  /\ next' = next + 1
  /\ LET command == argv[next + 1] IN
     \/ ~IsSwitch(command) /\ UNCHANGED <<value, switches>>
     \/ /\ IsSwitch(command)
        /\ value' = Value(command)
        /\ switches' = [s \in DOMAIN switches \cup {SwitchStr(command)} |->
                          IF HasSwitch(s) THEN switches[s] ELSE value']
  /\ UNCHANGED argv

Spec == Init /\ [][Turn]_vars

-----------------------------------------------------------------------------
(* Properties. *)

Names == { s \in Strings : \A i \in DOMAIN s : s[i] # kValueSeparator }

\* An argument gives a switch this value: -name or -name=value.
Gives(arg, name, v) ==
  \/ arg = <<kSwitchPrefix>> \o name /\ v = <<>>
  \/ arg = <<kSwitchPrefix>> \o name \o <<kValueSeparator>> \o v

Endings(arg) == { SubSeq(arg, n, Len(arg)) : n \in 1 .. Len(arg) + 1 }

\* A switch is there when an argument gives it, and has the value that the first
\* such argument gives it, whatever the other arguments are: nothing is cut off a
\* name or a value, and no value is carried over from another switch.
SwitchesAsGiven ==
  next = Len(argv) =>
    \A name \in Names :
      LET giving == { i \in DOMAIN argv :
                        \E v \in Endings(argv[i]) : Gives(argv[i], name, v) }
      IN  /\ HasSwitch(name) <=> giving # {}
          /\ IF giving = {} THEN SwitchValue(name) = <<>>
             ELSE Gives(argv[Min(giving)], name, SwitchValue(name))

=============================================================================
