------------------------- MODULE CommandLineProofs --------------------------
(***************************************************************************)
(* Whatever the arguments are, the switches are what the arguments say.    *)
(***************************************************************************)
EXTENDS CommandLine, NatInduction, SequenceTheorems

Chars == Others \cup {kSwitchPrefix, kValueSeparator}

LEMMA MinIsLeast ==
  ASSUME NEW S \in SUBSET Nat, S # {}
  PROVE  Min(S) \in S /\ \A n \in S : Min(S) <= n
BY LeastElement DEF Min

\* find() returns the first separator, or there is none.
LEMMA FirstSeparator ==
  ASSUME NEW command \in Seq(Chars)
  PROVE  LET k == Separator(command)
         IN  \/ k = 0 /\ \A i \in 1 .. Len(command) : command[i] # kValueSeparator
             \/ /\ k \in 1 .. Len(command) /\ command[k] = kValueSeparator
                /\ \A i \in 1 .. k - 1 : command[i] # kValueSeparator
<1> DEFINE I == { i \in 1 .. Len(command) : command[i] = kValueSeparator }
<1>1. Separator(command) = IF I # {} THEN Min(I) ELSE 0
  BY DEF Separator, SelectInSeq
<1>2. CASE I = {}
  BY <1>1, <1>2
<1>3. CASE I # {}
  <2>1. Min(I) \in I /\ \A n \in I : Min(I) <= n
    <3>1. I \in SUBSET Nat
      OBVIOUS
    <3> HIDE DEF I
    <3> QED
      BY <1>3, <3>1, MinIsLeast
  <2> DEFINE k == Min(I)
  <2>2. Separator(command) = k
    BY <1>1, <1>3
  <2>3. k \in 1 .. Len(command) /\ command[k] = kValueSeparator
    BY <2>1
  <2>4. \A i \in 1 .. k - 1 : command[i] # kValueSeparator
    BY <2>1, <2>3
  <2> QED
    BY <2>2, <2>3, <2>4
<1> QED
  BY <1>2, <1>3

-----------------------------------------------------------------------------
(* An argument gives a switch just what ParseSwitch cuts out of it.          *)

\* The characters of -name and of -name=value.
LEMMA BareSwitch ==
  ASSUME NEW name \in Seq(Chars)
  PROVE  LET arg == <<kSwitchPrefix>> \o name
         IN  /\ arg \in Seq(Chars) /\ Len(arg) = Len(name) + 1
             /\ arg[1] = kSwitchPrefix
             /\ \A i \in 1 .. Len(name) : arg[i + 1] = name[i]
<1>1. /\ <<kSwitchPrefix>> \in Seq(Chars) /\ Len(<<kSwitchPrefix>>) = 1
      /\ <<kSwitchPrefix>>[1] = kSwitchPrefix
  BY DEF Chars
<1> QED
  BY <1>1, ConcatProperties

LEMMA SwitchWithValue ==
  ASSUME NEW name \in Seq(Chars), NEW v \in Seq(Chars)
  PROVE  LET arg == <<kSwitchPrefix>> \o name \o <<kValueSeparator>> \o v
         IN  /\ arg \in Seq(Chars) /\ Len(arg) = Len(name) + Len(v) + 2
             /\ arg[1] = kSwitchPrefix
             /\ \A i \in 1 .. Len(name) : arg[i + 1] = name[i]
             /\ arg[Len(name) + 2] = kValueSeparator
             /\ \A i \in 1 .. Len(v) : arg[Len(name) + 2 + i] = v[i]
<1> DEFINE bare == <<kSwitchPrefix>> \o name
           cut  == bare \o <<kValueSeparator>>
           arg  == cut \o v
<1>1. /\ bare \in Seq(Chars) /\ Len(bare) = Len(name) + 1 /\ bare[1] = kSwitchPrefix
      /\ \A i \in 1 .. Len(name) : bare[i + 1] = name[i]
  BY BareSwitch
<1> HIDE DEF bare
<1>2. /\ <<kValueSeparator>> \in Seq(Chars) /\ Len(<<kValueSeparator>>) = 1
      /\ <<kValueSeparator>>[1] = kValueSeparator
  BY DEF Chars
<1>3. /\ cut \in Seq(Chars) /\ Len(cut) = Len(bare) + 1
      /\ \A i \in 1 .. Len(bare) : cut[i] = bare[i]
      /\ cut[Len(bare) + 1] = kValueSeparator
  <2>1. \A i \in 1 .. Len(bare) + 1 :
          cut[i] = IF i <= Len(bare) THEN bare[i]
                   ELSE <<kValueSeparator>>[i - Len(bare)]
    BY <1>1, <1>2, ConcatProperties
  <2> QED
    BY <1>1, <1>2, <2>1, ConcatProperties
<1> HIDE DEF cut
<1>4. /\ arg \in Seq(Chars) /\ Len(arg) = Len(cut) + Len(v)
      /\ \A i \in 1 .. Len(cut) : arg[i] = cut[i]
      /\ \A i \in 1 .. Len(v) : arg[Len(cut) + i] = v[i]
  <2>1. /\ arg \in Seq(Chars) /\ Len(arg) = Len(cut) + Len(v)
        /\ \A i \in 1 .. Len(cut) + Len(v) :
             arg[i] = IF i <= Len(cut) THEN cut[i] ELSE v[i - Len(cut)]
    BY <1>3, ConcatProperties
  <2>2. Len(cut) \in Nat /\ Len(v) \in Nat
    BY <1>3, LenProperties
  <2> QED
    BY <2>1, <2>2
<1> HIDE DEF arg
<1>5. Len(name) \in Nat /\ Len(v) \in Nat
  BY LenProperties
<1>6. ASSUME NEW i \in 1 .. Len(name) PROVE arg[i + 1] = name[i]
  <2>1. i + 1 \in 1 .. Len(bare) /\ i + 1 \in 1 .. Len(cut)
    BY <1>1, <1>3, <1>5
  <2> QED
    BY <1>1, <1>3, <1>4, <2>1
<1>7. arg[1] = kSwitchPrefix /\ arg[Len(name) + 2] = kValueSeparator
  BY <1>1, <1>3, <1>4, <1>5
<1>8. \A i \in 1 .. Len(v) : arg[Len(name) + 2 + i] = v[i]
  BY <1>1, <1>3, <1>4, <1>5
<1>9. Len(arg) = Len(name) + Len(v) + 2
  BY <1>1, <1>3, <1>4, <1>5
<1> QED
  BY <1>4, <1>6, <1>7, <1>8, <1>9 DEF arg, cut, bare

\* substr() of an argument.
LEMMA Slice ==
  ASSUME NEW arg \in Seq(Chars),
         NEW m \in 1 .. Len(arg) + 1, NEW n \in m - 1 .. Len(arg)
  PROVE  /\ SubSeq(arg, m, n) \in Seq(Chars)
         /\ Len(SubSeq(arg, m, n)) = n - m + 1
         /\ \A i \in 1 .. n - m + 1 : SubSeq(arg, m, n)[i] = arg[i + m - 1]
<1>1. Len(arg) \in Nat /\ m \in Int /\ n \in Int
  BY LenProperties
<1>2. \A i \in m .. n : arg[i] \in Chars
  BY <1>1, ElementOfSeq
<1>3. /\ SubSeq(arg, m, n) \in Seq(Chars)
      /\ Len(SubSeq(arg, m, n)) = IF m <= n THEN n - m + 1 ELSE 0
      /\ \A i \in 1 .. n - m + 1 : SubSeq(arg, m, n)[i] = arg[m + i - 1]
  BY <1>1, <1>2, SubSeqProperties
<1> QED
  BY <1>1, <1>3

LEMMA ParsesWhatIsGiven ==
  ASSUME NEW arg \in Seq(Chars), NEW name \in Seq(Chars), NEW v \in Seq(Chars),
         \A i \in 1 .. Len(name) : name[i] # kValueSeparator,
         Gives(arg, name, v)
  PROVE  IsSwitch(arg) /\ SwitchStr(arg) = name /\ Value(arg) = v
<1> DEFINE k == Separator(arg)
<1>1. Len(name) \in Nat /\ Len(v) \in Nat /\ Len(arg) \in Nat
  BY LenProperties
<1>2. kSwitchPrefix # kValueSeparator
  BY DEF kSwitchPrefix, kValueSeparator
<1>3. CASE arg = <<kSwitchPrefix>> \o name /\ v = <<>>
  <2>1. /\ Len(arg) = Len(name) + 1 /\ arg[1] = kSwitchPrefix
        /\ \A i \in 1 .. Len(name) : arg[i + 1] = name[i]
    BY <1>3, BareSwitch
  <2>2. \A i \in 1 .. Len(arg) : arg[i] # kValueSeparator
    <3>1. SUFFICES ASSUME NEW i \in 1 .. Len(arg), i # 1
                   PROVE  arg[i] # kValueSeparator
      BY <1>2, <2>1
    <3>2. i - 1 \in 1 .. Len(name) /\ arg[(i - 1) + 1] = name[i - 1] /\ (i - 1) + 1 = i
      BY <1>1, <2>1, <3>1
    <3> QED
      BY <3>2
  <2>3. k = 0
    BY <2>2, FirstSeparator
  <2>4. arg # <<>>
    BY <1>1, <2>1
  <2>5. Tail(arg) = name
    <3>1. /\ Tail(arg) \in Seq(Chars) /\ Len(Tail(arg)) = Len(name)
          /\ \A i \in 1 .. Len(Tail(arg)) : Tail(arg)[i] = arg[i + 1]
      BY <1>1, <2>1, <2>4, HeadTailProperties
    <3>2. \A i \in 1 .. Len(Tail(arg)) : Tail(arg)[i] = name[i]
      BY <2>1, <3>1
    <3> QED
      BY <3>1, <3>2, SeqEqual
  <2> QED
    BY <1>3, <2>1, <2>3, <2>4, <2>5 DEF IsSwitch, SwitchStr, Value, FreshValue
<1>4. CASE arg = <<kSwitchPrefix>> \o name \o <<kValueSeparator>> \o v
  <2>1. /\ Len(arg) = Len(name) + Len(v) + 2 /\ arg[1] = kSwitchPrefix
        /\ \A i \in 1 .. Len(name) : arg[i + 1] = name[i]
        /\ arg[Len(name) + 2] = kValueSeparator
        /\ \A i \in 1 .. Len(v) : arg[Len(name) + 2 + i] = v[i]
    BY <1>4, SwitchWithValue
  <2>2. \A i \in 1 .. Len(name) + 1 : arg[i] # kValueSeparator
    <3>1. SUFFICES ASSUME NEW i \in 1 .. Len(name) + 1, i # 1
                   PROVE  arg[i] # kValueSeparator
      BY <1>2, <2>1
    <3>2. i - 1 \in 1 .. Len(name) /\ arg[(i - 1) + 1] = name[i - 1] /\ (i - 1) + 1 = i
      BY <1>1, <2>1, <3>1
    <3> QED
      BY <3>2
  <2>3. k = Len(name) + 2
    <3>1. Len(name) + 2 \in 1 .. Len(arg)
      BY <1>1, <2>1
    <3>2. /\ k \in 1 .. Len(arg) /\ arg[k] = kValueSeparator
          /\ \A i \in 1 .. k - 1 : arg[i] # kValueSeparator
      BY <2>1, <3>1, FirstSeparator
    <3>3. ~(k \in 1 .. Len(name) + 1)
      BY <2>2, <3>2
    <3>4. ~(Len(name) + 2 \in 1 .. k - 1)
      BY <2>1, <3>2
    <3> QED
      BY <1>1, <3>2, <3>3, <3>4
  <2>4. arg # <<>>
    BY <1>1, <2>1
  <2>5. SubSeq(arg, 2, k - 1) = name
    <3>1. /\ SubSeq(arg, 2, k - 1) \in Seq(Chars)
          /\ Len(SubSeq(arg, 2, k - 1)) = Len(name)
          /\ \A i \in 1 .. Len(name) : SubSeq(arg, 2, k - 1)[i] = arg[i + 1]
      BY <1>1, <2>1, <2>3, Slice
    <3> QED
      BY <2>1, <3>1, SeqEqual
  <2>6. SubSeq(arg, k + 1, Len(arg)) = v
    <3>1. /\ SubSeq(arg, k + 1, Len(arg)) \in Seq(Chars)
          /\ Len(SubSeq(arg, k + 1, Len(arg))) = Len(v)
          /\ \A i \in 1 .. Len(v) : SubSeq(arg, k + 1, Len(arg))[i] = arg[k + i]
      BY <1>1, <2>1, <2>3, Slice
    <3>2. \A i \in 1 .. Len(v) : SubSeq(arg, k + 1, Len(arg))[i] = v[i]
      BY <2>1, <2>3, <3>1
    <3> QED
      BY <3>1, <3>2, SeqEqual
  <2> QED
    BY <1>1, <2>1, <2>3, <2>4, <2>5, <2>6 DEF IsSwitch, SwitchStr, Value
<1> QED
  BY <1>3, <1>4 DEF Gives

LEMMA GivesWhatIsParsed ==
  ASSUME NEW arg \in Seq(Chars), IsSwitch(arg)
  PROVE  /\ Gives(arg, SwitchStr(arg), Value(arg))
         /\ Value(arg) \in Endings(arg)
<1> DEFINE k == Separator(arg)
<1>1. /\ Len(arg) \in Nat \ {0} /\ arg # <<>> /\ arg[1] = kSwitchPrefix
  BY EmptySeq DEF IsSwitch
<1>2. kSwitchPrefix # kValueSeparator
  BY DEF kSwitchPrefix, kValueSeparator
<1>3. CASE k = 0
  <2>1. SwitchStr(arg) = Tail(arg) /\ Value(arg) = <<>>
    BY <1>3 DEF SwitchStr, Value, FreshValue
  <2>2. /\ Tail(arg) \in Seq(Chars) /\ Len(Tail(arg)) = Len(arg) - 1
        /\ \A i \in 1 .. Len(Tail(arg)) : Tail(arg)[i] = arg[i + 1]
    BY <1>1, HeadTailProperties
  <2>3. arg = <<kSwitchPrefix>> \o Tail(arg)
    <3> DEFINE made == <<kSwitchPrefix>> \o Tail(arg)
    <3>1. /\ made \in Seq(Chars) /\ Len(made) = Len(arg) /\ made[1] = kSwitchPrefix
          /\ \A i \in 1 .. Len(arg) - 1 : made[i + 1] = arg[i + 1]
      BY <1>1, <2>2, BareSwitch
    <3> HIDE DEF made
    <3>2. ASSUME NEW i \in 1 .. Len(arg) PROVE arg[i] = made[i]
      <4>1. CASE i = 1
        BY <1>1, <3>1, <4>1
      <4>2. CASE i # 1
        <5>1. i - 1 \in 1 .. Len(arg) - 1 /\ (i - 1) + 1 = i
          BY <1>1, <4>2
        <5> QED
          BY <3>1, <5>1
      <4> QED
        BY <4>1, <4>2
    <3>3. arg = made
      BY <3>1, <3>2, SeqEqual
    <3> QED
      BY <3>3 DEF made
  <2>4. <<>> = SubSeq(arg, Len(arg) + 1, Len(arg)) /\ Len(arg) + 1 \in 1 .. Len(arg) + 1
    BY <1>1, SubSeqEmpty
  <2> QED
    BY <2>1, <2>3, <2>4 DEF Gives, Endings
<1>4. CASE k # 0
  <2> DEFINE name == SubSeq(arg, 2, k - 1)
             v    == SubSeq(arg, k + 1, Len(arg))
  <2>1. SwitchStr(arg) = name /\ Value(arg) = v
    BY <1>4 DEF SwitchStr, Value
  <2>2. k \in 1 .. Len(arg) /\ arg[k] = kValueSeparator
    BY <1>4, FirstSeparator
  <2>3. k \in 2 .. Len(arg)
    BY <1>1, <1>2, <2>2
  <2>4. /\ name \in Seq(Chars) /\ Len(name) = k - 2
        /\ \A i \in 1 .. k - 2 : name[i] = arg[i + 1]
    BY <1>1, <2>3, Slice
  <2>5. /\ v \in Seq(Chars) /\ Len(v) = Len(arg) - k
        /\ \A i \in 1 .. Len(arg) - k : v[i] = arg[k + i]
    BY <1>1, <2>3, Slice
  <2> HIDE DEF name, v
  <2>6. arg = <<kSwitchPrefix>> \o name \o <<kValueSeparator>> \o v
    <3> DEFINE made == <<kSwitchPrefix>> \o name \o <<kValueSeparator>> \o v
    <3>1. /\ made \in Seq(Chars) /\ Len(made) = Len(name) + Len(v) + 2
          /\ made[1] = kSwitchPrefix
          /\ \A i \in 1 .. Len(name) : made[i + 1] = name[i]
          /\ made[Len(name) + 2] = kValueSeparator
          /\ \A i \in 1 .. Len(v) : made[Len(name) + 2 + i] = v[i]
      BY <2>4, <2>5, SwitchWithValue
    <3> HIDE DEF made
    <3>2. Len(made) = Len(arg) /\ made[k] = kValueSeparator
      <4>1. Len(name) = k - 2 /\ Len(v) = Len(arg) - k
        BY <2>4, <2>5
      <4>2. Len(name) + 2 = k /\ Len(name) + Len(v) + 2 = Len(arg)
        BY <1>1, <2>3, <4>1
      <4>3. Len(made) = Len(name) + Len(v) + 2 /\ made[Len(name) + 2] = kValueSeparator
        BY <3>1
      <4> QED
        BY <4>2, <4>3
    <3>3. ASSUME NEW i \in 1 .. Len(arg) PROVE arg[i] = made[i]
      <4>1. CASE i = 1
        BY <1>1, <3>1, <4>1
      <4>2. CASE i = k
        BY <2>2, <3>2, <4>2
      <4>3. CASE i \in 2 .. k - 1
        <5>1. i - 1 \in 1 .. k - 2 /\ (i - 1) + 1 = i
          BY <2>3, <4>3
        <5> QED
          BY <2>4, <3>1, <5>1
      <4>4. CASE i \in k + 1 .. Len(arg)
        <5>1. i - k \in 1 .. Len(arg) - k /\ k + (i - k) = i /\ Len(name) + 2 + (i - k) = i
          BY <1>1, <2>3, <2>4, <4>4
        <5> QED
          BY <2>5, <3>1, <5>1
      <4> QED
        BY <1>1, <2>3, <4>1, <4>2, <4>3, <4>4
    <3>4. arg = made
      BY <3>1, <3>2, <3>3, SeqEqual
    <3> QED
      BY <3>4 DEF made
  <2>7. k + 1 \in 1 .. Len(arg) + 1
    BY <1>1, <2>3
  <2> QED
    BY <2>1, <2>6, <2>7 DEF Gives, Endings, v
<1> QED
  BY <1>3, <1>4

-----------------------------------------------------------------------------
(* The inductive invariant.                                                  *)

LEMMA StringsAreSeqs ==
  /\ \A arg \in Strings : arg \in Seq(Chars)
  /\ \A arg \in Strings : Endings(arg) \subseteq Seq(Chars)
<1>1. \A arg \in Strings : arg \in Seq(Chars)
  BY SeqDef DEF Strings, Chars
<1>2. ASSUME NEW arg \in Strings, NEW n \in 1 .. Len(arg) + 1
      PROVE  SubSeq(arg, n, Len(arg)) \in Seq(Chars)
  <2>1. arg \in Seq(Chars) /\ Len(arg) \in Nat
    BY <1>1, LenProperties
  <2> QED
    BY <2>1, Slice
<1> QED
  BY <1>1, <1>2 DEF Endings

\* The switches among the first n arguments, and those of a name.
Parsed(n)      == { i \in 1 .. n : IsSwitch(argv[i]) }
Given(n, name) == { i \in Parsed(n) : SwitchStr(argv[i]) = name }

\* The first switch of a name is the one that counts.
IInv ==
  /\ argv \in Seq(Strings)
  /\ next \in 0 .. Len(argv)
  /\ DOMAIN switches = { SwitchStr(argv[i]) : i \in Parsed(next) }
  /\ \A name \in DOMAIN switches :
       switches[name] = Value(argv[Min(Given(next, name))])

LEMMA InitInv == Init => IInv
<1> SUFFICES ASSUME Init PROVE IInv
  OBVIOUS
<1>1. argv \in Seq(Strings)
  BY SeqDef DEF Init
<1>2. Len(argv) \in Nat /\ next = 0 /\ switches = <<>>
  BY <1>1, LenProperties DEF Init
<1> QED
  BY <1>1, <1>2 DEF IInv, Parsed

LEMMA TurnInv == IInv /\ [Turn]_vars => IInv'
<1> SUFFICES ASSUME IInv, [Turn]_vars PROVE IInv'
  OBVIOUS
<1>0. Len(argv) \in Nat
  BY LenProperties DEF IInv
<1>1. CASE UNCHANGED vars
  BY <1>1 DEF vars, IInv, Parsed, Given
<1>2. CASE Turn
  <2> DEFINE command == argv[next + 1]
             name    == SwitchStr(command)
  <2>1. /\ next < Len(argv) /\ next' = next + 1 /\ argv' = argv
        /\ next \in Nat /\ next' \in 0 .. Len(argv)
    BY <1>0, <1>2 DEF Turn, IInv
  <2>2. \A n, s : Parsed(n)' = Parsed(n) /\ Given(n, s)' = Given(n, s)
    BY <2>1 DEF Parsed, Given
  <2>3. CASE ~IsSwitch(command)
    <3>1. switches' = switches
      BY <1>2, <2>3 DEF Turn
    <3>2. Parsed(next + 1) = Parsed(next)
      BY <2>1, <2>3 DEF Parsed
    <3>3. \A s : Given(next + 1, s) = Given(next, s)
      BY <3>2 DEF Given
    <3>4. /\ DOMAIN switches' = { SwitchStr(argv[i]) : i \in Parsed(next + 1) }
          /\ \A s \in DOMAIN switches' :
               switches'[s] = Value(argv[Min(Given(next + 1, s))])
      BY <3>1, <3>2, <3>3 DEF IInv
    <3> QED
      BY <2>1, <2>2, <3>4 DEF IInv, Parsed, Given
  <2>4. CASE IsSwitch(command)
    <3>1. switches' = [s \in DOMAIN switches \cup {name} |->
                         IF s \in DOMAIN switches THEN switches[s] ELSE Value(command)]
      BY <1>2, <2>4 DEF Turn, HasSwitch
    <3>2. Parsed(next + 1) = Parsed(next) \cup {next + 1}
      BY <2>1, <2>4 DEF Parsed
    <3> HIDE DEF name
    <3>3. DOMAIN switches' = DOMAIN switches \cup {name}
      BY <3>1
    <3>4. \A s \in DOMAIN switches : switches'[s] = switches[s]
      BY <3>1
    <3>5. name \notin DOMAIN switches => switches'[name] = Value(command)
      BY <3>1
    <3>6. DOMAIN switches' = { SwitchStr(argv[i]) : i \in Parsed(next + 1) }
      BY <3>2, <3>3 DEF IInv, name
    <3>7. ASSUME NEW s \in DOMAIN switches
          PROVE  switches'[s] = Value(argv[Min(Given(next + 1, s))])
      <4>1. Given(next, s) # {} /\ Given(next, s) \subseteq 1 .. next
        BY <3>7 DEF IInv, Given, Parsed
      <4>2. /\ Given(next, s) \subseteq Given(next + 1, s)
            /\ Given(next + 1, s) \subseteq Given(next, s) \cup {next + 1}
        BY <3>2 DEF Given
      <4>3. Min(Given(next + 1, s)) = Min(Given(next, s))
        <5>1. Given(next, s) \in SUBSET Nat /\ Given(next + 1, s) \in SUBSET Nat
          BY <2>1, <4>1, <4>2
        <5>2. /\ Min(Given(next, s)) \in Given(next, s)
              /\ \A n \in Given(next, s) : Min(Given(next, s)) <= n
          BY <4>1, <5>1, MinIsLeast
        <5>3. /\ Min(Given(next + 1, s)) \in Given(next + 1, s)
              /\ \A n \in Given(next + 1, s) : Min(Given(next + 1, s)) <= n
          BY <4>1, <4>2, <5>1, MinIsLeast
        <5> QED
          BY <2>1, <4>1, <4>2, <5>1, <5>2, <5>3
      <4> QED
        BY <3>4, <3>7, <4>3 DEF IInv
    <3>8. ASSUME name \notin DOMAIN switches
          PROVE  switches'[name] = Value(argv[Min(Given(next + 1, name))])
      <4>1. Given(next + 1, name) = {next + 1}
        BY <3>2, <3>8 DEF IInv, Given, name
      <4>2. Min(Given(next + 1, name)) = next + 1
        BY <2>1, <4>1, MinIsLeast
      <4> QED
        BY <3>5, <3>8, <4>2
    <3>9. \A s \in DOMAIN switches' :
            switches'[s] = Value(argv[Min(Given(next + 1, s))])
      BY <3>3, <3>7, <3>8
    <3> QED
      BY <2>1, <2>2, <3>6, <3>9 DEF IInv, Parsed, Given
  <2> QED
    BY <2>3, <2>4
<1> QED
  BY <1>1, <1>2

-----------------------------------------------------------------------------
(* The theorem.                                                              *)

\* The arguments that give a switch of a name, in the words of the property.
Giving(name) == { i \in DOMAIN argv :
                    \E v \in Endings(argv[i]) : Gives(argv[i], name, v) }

\* Whatever the arguments are: a switch is there when an argument gives it, with
\* the value that the first such argument gives it.
THEOREM SwitchesRight == Spec => []SwitchesAsGiven
<1>1. IInv => SwitchesAsGiven
  <2> SUFFICES ASSUME IInv, next = Len(argv), NEW name \in Names
               PROVE  /\ HasSwitch(name) <=> Giving(name) # {}
                      /\ Giving(name) = {} => SwitchValue(name) = <<>>
                      /\ Giving(name) # {} =>
                           Gives(argv[Min(Giving(name))], name, SwitchValue(name))
    BY DEF SwitchesAsGiven, Giving
  <2> DEFINE giving == Giving(name)
  <2>1. /\ name \in Seq(Chars)
        /\ \A i \in 1 .. Len(name) : name[i] # kValueSeparator
    BY StringsAreSeqs, LenProperties DEF Names
  <2>2. /\ DOMAIN argv = 1 .. Len(argv)
        /\ \A i \in DOMAIN argv : /\ argv[i] \in Seq(Chars)
                                  /\ Endings(argv[i]) \subseteq Seq(Chars)
    BY StringsAreSeqs, LenProperties, ElementOfSeq DEF IInv
  <2>3. giving = Given(next, name)
    <3>1. ASSUME NEW i \in DOMAIN argv, NEW v \in Endings(argv[i]),
                 Gives(argv[i], name, v)
          PROVE  IsSwitch(argv[i]) /\ SwitchStr(argv[i]) = name
      <4>1. argv[i] \in Seq(Chars) /\ v \in Seq(Chars)
        BY <2>2, <3>1
      <4> QED
        BY <2>1, <3>1, <4>1, ParsesWhatIsGiven
    <3>2. ASSUME NEW i \in DOMAIN argv, IsSwitch(argv[i]), SwitchStr(argv[i]) = name
          PROVE  \E v \in Endings(argv[i]) : Gives(argv[i], name, v)
      BY <2>2, <3>2, GivesWhatIsParsed
    <3> QED
      BY <2>2, <3>1, <3>2 DEF Giving, Given, Parsed
  <2>4. HasSwitch(name) <=> giving # {}
    BY <2>3 DEF IInv, HasSwitch, Given
  <2>5. CASE giving = {}
    BY <2>4, <2>5 DEF SwitchValue
  <2>6. CASE giving # {}
    <3>1. SwitchValue(name) = Value(argv[Min(giving)])
      BY <2>3, <2>4, <2>6 DEF IInv, HasSwitch, SwitchValue
    <3>2. Min(giving) \in giving
      <4>1. giving \in SUBSET Nat
        BY <2>2, <2>3 DEF Given, Parsed, IInv
      <4> QED
        BY <2>6, <4>1, MinIsLeast
    <3>3. /\ IsSwitch(argv[Min(giving)]) /\ SwitchStr(argv[Min(giving)]) = name
          /\ argv[Min(giving)] \in Seq(Chars)
      BY <2>2, <2>3, <3>2 DEF Given, Parsed, IInv
    <3> QED
      BY <2>4, <2>6, <3>1, <3>3, GivesWhatIsParsed
  <2> QED
    BY <2>4, <2>5, <2>6
<1> QED
  BY <1>1, InitInv, TurnInv, PTL DEF Spec
=============================================================================
