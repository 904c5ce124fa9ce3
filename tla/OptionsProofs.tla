----------------------------- MODULE OptionsProofs -----------------------------
(***************************************************************************)
(* Proofs about Options, for any options and texts and command lines of    *)
(* any length.                                                             *)
(***************************************************************************)
EXTENDS Options, SequenceTheorems, FiniteSetTheorems, WellFoundedInduction, TLAPS

-------------------------------------------------------------------------------
(* The inductive invariant: what the part of the command line that was     *)
(* read has left behind.                                                   *)

\* The settings of an option so far.
SetSoFar(o) == {i \in Setting(o) : i < n}

\* The first of them is the first value, for all options but --help, which
\* -h sets as well.
FirstIsKept(o) ==
  /\ values[o] = <<>> => SetSoFar(o) = {}
  /\ values[o] # <<>> =>
       \E i \in SetSoFar(o) : /\ \A k \in SetSoFar(o) : i <= k
                              /\ Head(values[o]) = Parsed(o, argv[i].text)
ValuesInv == outcome # "thrown" => \A o \in Names \ {Help} : FirstIsKept(o)

HelpInv ==
  outcome # "thrown" =>
    (values[Help] # <<>> <=> \E i \in DOMAIN argv : i < n /\ AsksHelp(argv[i]))

\* Parsing goes past no number that cannot be read.
ReadInv ==
  IF outcome = "thrown"
  THEN \E i \in DOMAIN argv : Unreadable(argv[i])
  ELSE \A i \in DOMAIN argv : i < n => ~Unreadable(argv[i])

\* main decides when all is read.
EndInv ==
  /\ outcome \in {"help", "running"} => n = Len(argv) + 1
  /\ outcome = "help" => values[Help] # <<>>
  /\ outcome = "running" => values[Help] = <<>> /\ config = [o \in Names |-> Value(o)]

IInv == TypeOK /\ ValuesInv /\ HelpInv /\ ReadInv /\ EndInv

-------------------------------------------------------------------------------
(* Facts about arguments and their values.                                 *)

LEMMA BoundedFacts ==
  ASSUME NEW S, NEW m \in Nat, NEW s \in BoundedSeq(S, m)
  PROVE  s \in Seq(S) /\ Len(s) <= m
<1>1. PICK k \in 0..m : s \in [1..k -> S]
  BY DEF BoundedSeq, SeqOf
<1>2. s \in Seq(S)
  BY <1>1, SeqDef
<1> QED BY <1>1, <1>2, LenProperties

LEMMA ArgumentFacts ==
  ASSUME NEW a \in Arguments
  PROVE  /\ a.kind = "long" =>
              /\ a.name \in Names \cup {Stranger} /\ a.text \in Texts \cup {Empty}
              /\ a.name \in Names \/ a.text = Empty
         /\ a.kind = "short" => a.letters \in Seq({HelpLetter, StrangeLetter})
<1> DEFINE longs  == {Long(o, t) : o \in Names, t \in Texts \cup {Empty}}
           shorts == {Short(l) : l \in BoundedSeq({HelpLetter, StrangeLetter}, 2)}
           others == {Long(Stranger, Empty), Other("dashes"), Other("plain")}
           good   == /\ a.kind = "long" =>
                          /\ a.name \in Names \cup {Stranger} /\ a.text \in Texts \cup {Empty}
                          /\ a.name \in Names \/ a.text = Empty
                     /\ a.kind = "short" => a.letters \in Seq({HelpLetter, StrangeLetter})
<1> SUFFICES good
  OBVIOUS
<1>1. CASE a \in longs
  BY <1>1 DEF Long
<1>2. CASE a \in shorts
  <2>1. PICK l \in BoundedSeq({HelpLetter, StrangeLetter}, 2) : a = Short(l)
    BY <1>2
  <2>2. l \in Seq({HelpLetter, StrangeLetter})
    BY BoundedFacts
  <2> QED BY <2>1, <2>2 DEF Short
<1>3. CASE a \in others
  BY <1>3 DEF Long, Other
<1>4. Arguments = longs \cup shorts \cup others
  BY DEF Arguments
<1> HIDE DEF longs, shorts, others, good
<1> QED BY <1>1, <1>2, <1>3, <1>4

LEMMA ParsedType ==
  ASSUME NEW o \in Names, NEW t \in Texts \cup {Empty}
  PROVE  Parsed(o, t) \in Settings
  BY DEF Parsed, Settings

\* What a number's option reads, and what it cannot read.
LEMMA ReadsFacts ==
  ASSUME NEW a \in Arguments, a.kind = "long"
  PROVE  Unreadable(a) <=> ~Unknown(a) /\ a.text # Empty /\ ~Reads(a.name, a.text)
<1>1. a.name \in Names \cup {Stranger} /\ a.text \in Texts \cup {Empty}
  BY ArgumentFacts
<1>2. Empty \notin Texts
  BY OptionsAssumption DEF Settings
<1>3. CASE a.name \in IntOptions
  BY <1>1, <1>2, <1>3, OptionsAssumption DEF Unreadable, Unknown, Reads, Names, Texts
<1>4. CASE a.name \in DoubleOptions
  BY <1>1, <1>2, <1>4, OptionsAssumption DEF Unreadable, Unknown, Reads, Names, Texts
<1>5. CASE a.name \notin IntOptions \cup DoubleOptions
  BY <1>5 DEF Unreadable, Reads
<1> QED BY <1>3, <1>4, <1>5

\* --help in its long form is a setting of that switch, and only it.
LEMMA HelpFacts ==
  ASSUME NEW a \in Arguments
  PROVE  /\ a.kind = "long" => (AsksHelp(a) <=> a.name = Help /\ ~Unknown(a))
         /\ a.kind \in {"dashes", "plain"} => ~AsksHelp(a)
  BY OptionsAssumption DEF AsksHelp, Unknown, Names

-------------------------------------------------------------------------------
(* A turn of the loop.                                                     *)

LEMMA AtFacts ==
  ASSUME TypeOK, NEW kind, At(kind)
  PROVE  /\ outcome = "parsing"
         /\ n \in DOMAIN argv /\ n \in Nat /\ Len(argv) \in Nat
         /\ DOMAIN argv = 1..Len(argv)
         /\ argv[n] \in Arguments /\ argv[n].kind = kind
         /\ argv' = argv /\ config' = config
         /\ n' = n + 1 /\ n' \in 1..(Len(argv') + 1)
<1>1. argv \in Seq(Arguments) /\ n \in 1..(Len(argv) + 1) /\ n <= Len(argv)
  BY DEF TypeOK, At
<1>2. Len(argv) \in Nat /\ DOMAIN argv = 1..Len(argv)
  BY <1>1, LenProperties
<1>3. n \in 1..Len(argv)
  BY <1>1, <1>2
<1>4. argv[n] \in Arguments
  BY <1>1, <1>3, ElementOfSeq
<1> QED BY <1>1, <1>2, <1>3, <1>4 DEF At

LEMMA SetSoFarGrows ==
  ASSUME TypeOK, NEW kind, At(kind), NEW o
  PROVE  /\ n \in Setting(o) <=> argv[n].kind = "long" /\ argv[n].name = o /\ ~Unknown(argv[n])
         /\ SetSoFar(o)' = SetSoFar(o) \cup (IF n \in Setting(o) THEN {n} ELSE {})
         /\ \A i \in SetSoFar(o) : i \in Nat /\ i < n
<1>1. n \in DOMAIN argv /\ n' = n + 1 /\ argv' = argv /\ DOMAIN argv = 1..Len(argv)
      /\ n \in Nat /\ Len(argv) \in Nat
  BY AtFacts
<1>2. Setting(o)' = Setting(o)
  BY <1>1 DEF Setting
<1>3. Setting(o) \subseteq 1..Len(argv)
  BY <1>1 DEF Setting
<1>4. \A i \in 1..Len(argv) : i < n + 1 <=> i < n \/ i = n
  BY <1>1
<1>5. SetSoFar(o)' = {i \in Setting(o) : i < n + 1}
  BY <1>1, <1>2 DEF SetSoFar
<1>6. SetSoFar(o)' = SetSoFar(o) \cup (IF n \in Setting(o) THEN {n} ELSE {})
  BY <1>3, <1>4, <1>5 DEF SetSoFar
<1>7. n \in Setting(o) <=> argv[n].kind = "long" /\ argv[n].name = o /\ ~Unknown(argv[n])
  BY <1>1 DEF Setting
<1>8. \A i \in SetSoFar(o) : i \in Nat /\ i < n
  BY <1>1, <1>3 DEF SetSoFar
<1> QED BY <1>6, <1>7, <1>8

\* An option nobody sets stays as it is.
LEMMA FirstStays ==
  ASSUME TypeOK, NEW kind, At(kind), NEW o, FirstIsKept(o),
         n \notin Setting(o), values'[o] = values[o]
  PROVE  FirstIsKept(o)'
<1>1. SetSoFar(o)' = SetSoFar(o)
  BY SetSoFarGrows
<1>2. argv' = argv
  BY AtFacts
<1> QED BY <1>1, <1>2 DEF FirstIsKept, Parsed

-------------------------------------------------------------------------------
(* The first state.                                                        *)

LEMMA InitHolds == Init => IInv
<1> SUFFICES ASSUME Init PROVE IInv
  OBVIOUS
<1>1. argv \in Seq(Arguments) /\ Len(argv) <= MaxArgs /\ Len(argv) \in Nat
      /\ DOMAIN argv = 1..Len(argv)
  <2>1. argv \in Seq(Arguments) /\ Len(argv) <= MaxArgs
    BY BoundedFacts, OptionsAssumption DEF Init
  <2> QED BY <2>1, LenProperties
<1>2. Default \in Settings
  BY DEF Settings
<1>3. TypeOK
  <2>1. values \in [Names -> Seq(Settings)] /\ config \in [Names -> Settings]
    BY <1>2 DEF Init
  <2>2. nonOption \in Seq(Arguments) /\ unknown \in Seq(Arguments)
    BY DEF Init
  <2>3. n \in 1..(Len(argv) + 1)
    BY <1>1 DEF Init
  <2> QED BY <1>1, <2>1, <2>2, <2>3 DEF Init, TypeOK
<1>4. ~\E i \in DOMAIN argv : i < n
  BY <1>1 DEF Init
<1>5. \A o \in Names : values[o] = <<>> /\ SetSoFar(o) = {}
  BY <1>4 DEF Init, SetSoFar, Setting
<1>6. ValuesInv
  BY <1>5 DEF ValuesInv, FirstIsKept
<1>7. HelpInv /\ ReadInv /\ EndInv
  BY <1>4, <1>5, OptionsAssumption DEF Init, HelpInv, ReadInv, EndInv, Names
<1> QED BY <1>3, <1>6, <1>7 DEF IInv

-------------------------------------------------------------------------------
(* The steps one by one.                                                   *)

\* A turn that parses on, from what it does to values and unreadables.
LEMMA TurnKeeps ==
  ASSUME IInv, NEW kind, At(kind), outcome' = "parsing", TypeOK',
         ~Unreadable(argv[n]),
         values'[Help] # <<>> <=> values[Help] # <<>> \/ AsksHelp(argv[n]),
         \A o \in Names \ {Help} : FirstIsKept(o)'
  PROVE  IInv'
<1>1. /\ outcome = "parsing" /\ n \in DOMAIN argv /\ n \in Nat /\ Len(argv) \in Nat
      /\ DOMAIN argv = 1..Len(argv) /\ argv' = argv /\ n' = n + 1
  BY AtFacts DEF IInv
<1>2. \A i \in DOMAIN argv : i < n' <=> i < n \/ i = n
  BY <1>1
<1>3. ValuesInv'
  BY DEF ValuesInv
<1>4. HelpInv'
  <2>1. AsksHelp(argv[n]) => \E i \in DOMAIN argv : i < n' /\ AsksHelp(argv[i])
    BY <1>1, <1>2
  <2>2. values[Help] # <<>> <=> \E i \in DOMAIN argv : i < n /\ AsksHelp(argv[i])
    BY <1>1 DEF IInv, HelpInv
  <2>3. values'[Help] # <<>> <=> \E i \in DOMAIN argv : i < n' /\ AsksHelp(argv[i])
    BY <1>2, <2>1, <2>2
  <2> QED BY <1>1, <2>3 DEF HelpInv
<1>5. ReadInv'
  <2>1. \A i \in DOMAIN argv : i < n => ~Unreadable(argv[i])
    BY <1>1 DEF IInv, ReadInv
  <2>2. \A i \in DOMAIN argv : i < n' => ~Unreadable(argv[i])
    BY <1>2, <2>1
  <2> QED BY <1>1, <2>2 DEF ReadInv
<1>6. EndInv'
  BY DEF EndInv
<1> QED BY <1>3, <1>4, <1>5, <1>6 DEF IInv

\* A turn that leaves the values alone and is about no setting.
LEMMA TurnWithoutValue ==
  ASSUME IInv, NEW kind, At(kind), outcome' = "parsing", TypeOK', values' = values,
         ~Unreadable(argv[n]), ~AsksHelp(argv[n]), \A o : n \notin Setting(o)
  PROVE  IInv'
<1>1. outcome = "parsing"
  BY AtFacts DEF IInv
<1>2. \A o \in Names \ {Help} : FirstIsKept(o)
  BY <1>1 DEF IInv, ValuesInv
<1>3. \A o \in Names \ {Help} : FirstIsKept(o)'
  BY <1>2, FirstStays DEF IInv
<1> QED BY <1>3, TurnKeeps

LEMMA LongStep ==
  ASSUME IInv, LongOption
  PROVE  IInv'
<1> DEFINE arg == argv[n]
           new == Parsed(arg.name, arg.text)
<1>1. At("long") /\ TypeOK /\ ~Unknown(arg) /\ (arg.text = Empty \/ Reads(arg.name, arg.text))
  BY DEF IInv, LongOption
<1>2. /\ outcome = "parsing" /\ n \in DOMAIN argv /\ n \in Nat
      /\ arg \in Arguments /\ arg.kind = "long" /\ argv' = argv /\ config' = config
      /\ n' \in 1..(Len(argv') + 1)
  BY <1>1, AtFacts
<1>3. arg.name \in Names /\ arg.text \in Texts \cup {Empty}
  BY <1>1, <1>2, ArgumentFacts DEF Unknown
<1>4. new \in Settings
  BY <1>3, ParsedType
<1>5. values' = [values EXCEPT ![arg.name] = Append(@, new)]
      /\ nonOption' = nonOption /\ unknown' = unknown /\ outcome' = outcome
  BY DEF LongOption
<1> HIDE DEF new
<1>6. \A s \in Seq(Settings) :
        /\ Append(s, new) \in Seq(Settings) /\ Append(s, new) # <<>>
        /\ Head(Append(s, new)) = IF s = <<>> THEN new ELSE Head(s)
  <2>1. SUFFICES ASSUME NEW s \in Seq(Settings)
                 PROVE  /\ Append(s, new) \in Seq(Settings) /\ Append(s, new) # <<>>
                        /\ Head(Append(s, new)) = IF s = <<>> THEN new ELSE Head(s)
    OBVIOUS
  <2>2. Append(s, new) \in Seq(Settings) /\ Append(s, new) # <<>>
    BY <1>4, AppendProperties
  <2>3. Head(Append(s, new)) = IF s = <<>> THEN new ELSE Head(s)
    BY <1>4
  <2> QED BY <2>2, <2>3
<1>7. values \in [Names -> Seq(Settings)]
  BY <1>1 DEF TypeOK
<1>8. values' \in [Names -> Seq(Settings)]
  BY <1>3, <1>5, <1>6, <1>7
<1>9. TypeOK'
  BY <1>1, <1>2, <1>5, <1>8 DEF TypeOK
<1>10. ~Unreadable(arg)
  BY <1>1, <1>2, ReadsFacts
<1>11. values'[Help] # <<>> <=> values[Help] # <<>> \/ AsksHelp(arg)
  <2>1. AsksHelp(arg) <=> arg.name = Help
    BY <1>1, <1>2, HelpFacts
  <2>2. Help \in Names
    BY OptionsAssumption DEF Names
  <2> QED BY <1>3, <1>5, <1>6, <1>7, <2>1, <2>2
<1>12. ASSUME NEW o \in Names \ {Help} PROVE FirstIsKept(o)'
  <2>1. FirstIsKept(o)
    BY <1>2 DEF IInv, ValuesInv
  <2>2. n \in Setting(o) <=> arg.name = o
    BY <1>1, <1>2, SetSoFarGrows
  <2>3. CASE arg.name # o
    <3>1. values'[o] = values[o]
      BY <1>5, <1>7, <2>3
    <3> QED BY <1>1, <2>1, <2>2, <2>3, <3>1, FirstStays
  <2>4. CASE arg.name = o
    <3>1. SetSoFar(o)' = SetSoFar(o) \cup {n} /\ \A i \in SetSoFar(o) : i \in Nat /\ i < n
      BY <1>1, <2>2, <2>4, SetSoFarGrows
    <3>2. values'[o] = Append(values[o], new) /\ values[o] \in Seq(Settings)
      BY <1>3, <1>5, <1>7, <2>4
    <3>3. /\ values'[o] # <<>>
          /\ Head(values'[o]) = IF values[o] = <<>> THEN new ELSE Head(values[o])
      BY <1>6, <3>2
    <3>4. CASE values[o] = <<>>
      <4>1. SetSoFar(o)' = {n} /\ Head(values'[o]) = Parsed(o, argv'[n].text)
        BY <1>2, <2>1, <2>4, <3>1, <3>3, <3>4 DEF FirstIsKept, new
      <4>2. \A k \in {n} : n <= k
        BY <1>2
      <4> QED BY <3>3, <4>1, <4>2 DEF FirstIsKept, Parsed
    <3>5. CASE values[o] # <<>>
      <4>1. PICK i \in SetSoFar(o) : /\ \A k \in SetSoFar(o) : i <= k
                                     /\ Head(values[o]) = Parsed(o, argv[i].text)
        BY <2>1, <3>5 DEF FirstIsKept
      <4>2. i \in SetSoFar(o)' /\ \A k \in SetSoFar(o)' : i <= k
        BY <1>2, <3>1, <4>1
      <4>3. Head(values'[o]) = Parsed(o, argv'[i].text)
        BY <1>2, <3>3, <3>5, <4>1
      <4> QED BY <3>3, <4>2, <4>3 DEF FirstIsKept, Parsed
    <3> QED BY <3>4, <3>5
  <2> QED BY <2>3, <2>4
<1> QED BY <1>1, <1>2, <1>5, <1>9, <1>10, <1>11, <1>12, TurnKeeps

LEMMA UnknownStep ==
  ASSUME IInv, UnknownOption
  PROVE  IInv'
<1>1. At("long") /\ Unknown(argv[n]) /\ TypeOK
  BY DEF IInv, UnknownOption
<1>2. /\ outcome = "parsing" /\ argv[n] \in Arguments /\ argv[n].kind = "long"
      /\ argv' = argv /\ config' = config /\ n' \in 1..(Len(argv') + 1)
  BY <1>1, AtFacts
<1>3. unknown' \in Seq(Arguments)
  BY <1>1, <1>2, AppendProperties DEF UnknownOption, TypeOK
<1>4. TypeOK'
  BY <1>1, <1>2, <1>3 DEF TypeOK, UnknownOption
<1>5. ~Unreadable(argv[n]) /\ ~AsksHelp(argv[n])
  BY <1>1, <1>2, ReadsFacts, HelpFacts
<1>6. \A o : n \notin Setting(o)
  BY <1>1, SetSoFarGrows
<1> QED BY <1>1, <1>2, <1>4, <1>5, <1>6, TurnWithoutValue DEF UnknownOption

LEMMA DashesStep ==
  ASSUME IInv, Dashes
  PROVE  IInv'
<1>1. At("dashes") /\ TypeOK
  BY DEF IInv, Dashes
<1>2. /\ outcome = "parsing" /\ argv[n] \in Arguments /\ argv[n].kind = "dashes"
      /\ argv' = argv /\ config' = config /\ n' \in 1..(Len(argv') + 1)
      /\ n \in Nat /\ Len(argv) \in Nat
  BY <1>1, AtFacts
<1>3. nonOption' \in Seq(Arguments)
  <2>1. \A i \in (n + 1)..Len(argv) : argv[i] \in Arguments
    BY <1>1, <1>2, ElementOfSeq DEF TypeOK
  <2>2. SubSeq(argv, n + 1, Len(argv)) \in Seq(Arguments)
    BY <1>2, <2>1, SubSeqProperties
  <2> QED BY <1>1, <2>2, ConcatProperties DEF Dashes, TypeOK
<1>4. TypeOK'
  BY <1>1, <1>2, <1>3 DEF TypeOK, Dashes
<1>5. ~Unreadable(argv[n]) /\ ~AsksHelp(argv[n])
  BY <1>2, HelpFacts DEF Unreadable
<1>6. \A o : n \notin Setting(o)
  BY <1>1, <1>2, SetSoFarGrows
<1> QED BY <1>1, <1>2, <1>4, <1>5, <1>6, TurnWithoutValue DEF Dashes

LEMMA NonOptionStep ==
  ASSUME IInv, NonOption
  PROVE  IInv'
<1>1. At("plain") /\ TypeOK
  BY DEF IInv, NonOption
<1>2. /\ outcome = "parsing" /\ argv[n] \in Arguments /\ argv[n].kind = "plain"
      /\ argv' = argv /\ config' = config /\ n' \in 1..(Len(argv') + 1)
  BY <1>1, AtFacts
<1>3. nonOption' \in Seq(Arguments)
  BY <1>1, <1>2, AppendProperties DEF NonOption, TypeOK
<1>4. TypeOK'
  BY <1>1, <1>2, <1>3 DEF TypeOK, NonOption
<1>5. ~Unreadable(argv[n]) /\ ~AsksHelp(argv[n])
  BY <1>2, HelpFacts DEF Unreadable
<1>6. \A o : n \notin Setting(o)
  BY <1>1, <1>2, SetSoFarGrows
<1> QED BY <1>1, <1>2, <1>4, <1>5, <1>6, TurnWithoutValue DEF NonOption

LEMMA InvalidStep ==
  ASSUME IInv, InvalidOption
  PROVE  IInv'
<1>1. /\ At("long") /\ TypeOK /\ outcome' = "thrown"
      /\ ~Unknown(argv[n]) /\ argv[n].text # Empty /\ ~Reads(argv[n].name, argv[n].text)
  BY DEF IInv, InvalidOption
<1>2. /\ n \in DOMAIN argv /\ argv[n] \in Arguments /\ argv[n].kind = "long"
      /\ argv' = argv /\ config' = config /\ n' \in 1..(Len(argv') + 1)
  BY <1>1, AtFacts
<1>3. TypeOK'
  BY <1>1, <1>2 DEF TypeOK, InvalidOption
<1>4. ReadInv'
  BY <1>1, <1>2, ReadsFacts DEF ReadInv
<1> QED BY <1>1, <1>3, <1>4 DEF IInv, ValuesInv, HelpInv, EndInv

LEMMA ShortStep ==
  ASSUME IInv, ShortOptions
  PROVE  IInv'
<1> DEFINE letters == argv[n].letters
           helps   == {k \in DOMAIN letters : letters[k] = HelpLetter}
           more    == [k \in 1..Cardinality(helps) |-> On]
<1>1. At("short") /\ TypeOK
  BY DEF IInv, ShortOptions
<1>2. /\ outcome = "parsing" /\ argv[n] \in Arguments /\ argv[n].kind = "short"
      /\ argv' = argv /\ config' = config /\ n' \in 1..(Len(argv') + 1)
  BY <1>1, AtFacts
<1>3. /\ values' = [values EXCEPT ![Help] = @ \o more]
      /\ unknown' = unknown \/ unknown' = Append(unknown, argv[n])
      /\ nonOption' = nonOption /\ outcome' = outcome
  BY DEF ShortOptions
<1>4. AsksHelp(argv[n]) <=> helps # {}
  BY <1>2 DEF AsksHelp
<1>5. IsFiniteSet(helps)
  <2>1. letters \in Seq({HelpLetter, StrangeLetter})
    BY <1>2, ArgumentFacts
  <2>2. DOMAIN letters = 1..Len(letters) /\ Len(letters) \in Nat
    BY <2>1, LenProperties
  <2>3. IsFiniteSet(DOMAIN letters)
    BY <2>2, FS_Interval
  <2> QED BY <2>3, FS_Subset
<1> HIDE DEF helps, letters
<1>6. Cardinality(helps) \in Nat /\ (Cardinality(helps) = 0 <=> helps = {})
  BY <1>5, FS_CardinalityType, FS_EmptySet
<1>7. more \in Seq(Settings) /\ (more = <<>> <=> helps = {})
  <2> DEFINE m == Cardinality(helps)
  <2>1. m \in Nat /\ (m = 0 <=> helps = {})
    BY <1>6
  <2> HIDE DEF m
  <2>2. [k \in 1..m |-> On] \in [1..m -> Settings]
    BY DEF Settings
  <2>3. [k \in 1..m |-> On] \in Seq(Settings)
    BY <2>1, <2>2, SeqDef
  <2>4. Len([k \in 1..m |-> On]) = m
    BY <2>1
  <2>5. [k \in 1..m |-> On] = <<>> <=> m = 0
    BY <2>1, <2>3, <2>4, EmptySeq
  <2> QED BY <2>1, <2>3, <2>5 DEF m
<1> HIDE DEF more
<1>8. Help \in Names /\ values[Help] \in Seq(Settings) /\ values \in [Names -> Seq(Settings)]
  BY <1>1, OptionsAssumption DEF TypeOK, Names
<1>9. /\ values[Help] \o more \in Seq(Settings)
      /\ values[Help] \o more = <<>> <=> values[Help] = <<>> /\ more = <<>>
  BY <1>7, <1>8, ConcatProperties, ConcatEqualIffEmpty
<1>10. TypeOK'
  <2>1. values' \in [Names -> Seq(Settings)]
    BY <1>3, <1>8, <1>9
  <2>2. unknown' \in Seq(Arguments)
    <3>1. unknown \in Seq(Arguments)
      BY <1>1 DEF TypeOK
    <3>2. Append(unknown, argv[n]) \in Seq(Arguments)
      BY <1>2, <3>1, AppendProperties
    <3> QED BY <1>3, <3>1, <3>2
  <2> QED BY <1>1, <1>2, <1>3, <2>1, <2>2 DEF TypeOK
<1>11. values'[Help] # <<>> <=> values[Help] # <<>> \/ AsksHelp(argv[n])
  <2>1. values'[Help] = values[Help] \o more
    BY <1>3, <1>8
  <2> QED BY <1>4, <1>7, <1>9, <2>1
<1>12. ASSUME NEW o \in Names \ {Help} PROVE FirstIsKept(o)'
  <2>1. FirstIsKept(o)
    BY <1>2 DEF IInv, ValuesInv
  <2>2. n \notin Setting(o)
    BY <1>1, <1>2, SetSoFarGrows
  <2>3. values'[o] = values[o]
    BY <1>3, <1>8
  <2> QED BY <1>1, <2>1, <2>2, <2>3, FirstStays
<1>13. ~Unreadable(argv[n])
  BY <1>2 DEF Unreadable
<1> QED BY <1>1, <1>2, <1>3, <1>10, <1>11, <1>12, <1>13, TurnKeeps

\* What stays when the command line and its values do.
LEMMA RestStays ==
  ASSUME IInv, UNCHANGED <<argv, n, values>>, outcome' # "thrown", outcome # "thrown"
  PROVE  ValuesInv' /\ HelpInv' /\ ReadInv'
<1>1. ASSUME NEW o \in Names \ {Help} PROVE FirstIsKept(o)'
  <2>1. FirstIsKept(o)
    BY DEF IInv, ValuesInv
  <2>2. SetSoFar(o)' = SetSoFar(o)
    BY DEF SetSoFar, Setting
  <2> QED BY <2>1, <2>2 DEF FirstIsKept, Parsed
<1> QED BY <1>1 DEF IInv, ValuesInv, HelpInv, ReadInv

LEMMA MainStep ==
  ASSUME IInv, Main
  PROVE  IInv'
<1>1. /\ outcome = "parsing" /\ UNCHANGED <<argv, n, values, nonOption, unknown>>
      /\ \/ values[Help] # <<>> /\ outcome' = "help" /\ config' = config
         \/ values[Help] = <<>> /\ outcome' = "running" /\ config' = [o \in Names |-> Value(o)]
      /\ n = Len(argv) + 1
  <2>1. n \in 1..(Len(argv) + 1) /\ n > Len(argv) /\ argv \in Seq(Arguments)
    BY DEF IInv, TypeOK, Main
  <2>2. Len(argv) \in Nat
    BY <2>1, LenProperties
  <2>3. n = Len(argv) + 1
    BY <2>1, <2>2
  <2> QED BY <2>3 DEF Main
<1>2. \A o \in Names : Value(o) \in Settings
  <2>1. SUFFICES ASSUME NEW o \in Names PROVE Value(o) \in Settings
    OBVIOUS
  <2>2. values[o] \in Seq(Settings)
    BY DEF IInv, TypeOK
  <2>3. values[o] # <<>> => Head(values[o]) \in Settings
    BY <2>2, HeadTailProperties
  <2> QED BY <2>3 DEF Value, Settings
<1>3. config' \in [Names -> Settings] /\ outcome' \in {"help", "running"}
  <2>1. [o \in Names |-> Value(o)] \in [Names -> Settings]
    BY <1>2
  <2> QED BY <1>1, <2>1 DEF IInv, TypeOK
<1>4. TypeOK'
  BY <1>1, <1>3 DEF IInv, TypeOK
<1>5. ValuesInv' /\ HelpInv' /\ ReadInv'
  BY <1>1, RestStays
<1>6. EndInv'
  BY <1>1 DEF EndInv, Value
<1> QED BY <1>4, <1>5, <1>6 DEF IInv

LEMMA StutterStep ==
  ASSUME IInv, UNCHANGED vars
  PROVE  IInv'
<1> USE DEF vars
<1>1. TypeOK' /\ EndInv'
  BY DEF IInv, TypeOK, EndInv, Value
<1>2. CASE outcome = "thrown"
  BY <1>1, <1>2 DEF IInv, ValuesInv, HelpInv, ReadInv
<1>3. CASE outcome # "thrown"
  BY <1>1, <1>3, RestStays DEF IInv
<1> QED BY <1>2, <1>3

LEMMA InvariantHolds == Spec => []IInv
<1>1. IInv /\ [Next]_vars => IInv'
  BY LongStep, UnknownStep, InvalidStep, ShortStep, DashesStep, NonOptionStep, MainStep,
     StutterStep DEF Next
<1> QED BY InitHolds, <1>1, PTL DEF Spec

-------------------------------------------------------------------------------
(* What follows at the end.                                                *)

\* The first setting counts, wherever it stands.
LEMMA FirstOfAll ==
  ASSUME IInv, outcome = "running", NEW o \in Names
  PROVE  config[o] = IF Setting(o) = {} THEN Default
                     ELSE Parsed(o, argv[Min(Setting(o))].text)
<1>1. /\ argv \in Seq(Arguments) /\ DOMAIN argv = 1..Len(argv) /\ Len(argv) \in Nat
      /\ n = Len(argv) + 1
  BY LenProperties DEF IInv, TypeOK, EndInv
<1>2. SetSoFar(o) = Setting(o) /\ Setting(o) \subseteq Nat
  <2>1. Setting(o) \subseteq 1..Len(argv)
    BY <1>1 DEF Setting
  <2>2. \A i \in 1..Len(argv) : i < n /\ i \in Nat
    BY <1>1
  <2> QED BY <2>1, <2>2 DEF SetSoFar
<1>3. values[Help] = <<>> /\ config[o] = Value(o)
  BY DEF IInv, EndInv
<1>4. CASE o = Help
  <2>1. \A i \in DOMAIN argv : ~AsksHelp(argv[i])
    BY <1>1, <1>3 DEF IInv, HelpInv
  <2>2. \A i \in DOMAIN argv : argv[i] \in Arguments
    BY <1>1, ElementOfSeq
  <2>3. Setting(o) = {}
    BY <1>4, <2>1, <2>2, HelpFacts DEF Setting
  <2> QED BY <1>3, <1>4, <2>3 DEF Value
<1>5. CASE o # Help
  <2>1. FirstIsKept(o)
    BY <1>5 DEF IInv, ValuesInv
  <2>2. CASE values[o] = <<>>
    BY <1>2, <1>3, <2>1, <2>2 DEF FirstIsKept, Value
  <2>3. CASE values[o] # <<>>
    <3>1. PICK i \in Setting(o) : /\ \A k \in Setting(o) : i <= k
                                  /\ Head(values[o]) = Parsed(o, argv[i].text)
      BY <1>2, <2>1, <2>3 DEF FirstIsKept
    <3>2. Min(Setting(o)) \in Setting(o) /\ \A k \in Setting(o) : Min(Setting(o)) <= k
      BY <3>1 DEF Min
    <3>3. Min(Setting(o)) = i
      BY <1>2, <3>1, <3>2
    <3> QED BY <1>3, <2>3, <3>1, <3>3 DEF Value
  <2> QED BY <2>2, <2>3
<1> QED BY <1>4, <1>5

\* A nonempty set of naturals has a least element.
LEMMA LeastElement ==
  ASSUME NEW S \in SUBSET Nat, S # {}
  PROVE  \E d \in S : \A e \in S : d <= e
<1>1. PICK d \in S : \A e \in S : ~(<<e, d>> \in OpToRel(<, Nat))
  BY NatLessThanWellFounded, WFMin
<1>2. \A i, j \in Nat : i < j => <<i, j>> \in OpToRel(<, Nat)
  BY DEF OpToRel
<1>3. \A e \in S : ~(e < d)
  BY <1>1, <1>2
<1> QED BY <1>3

LEMMA FirstHolds == IInv => FirstSettingCounts
<1> SUFFICES ASSUME IInv, outcome = "running", NEW o \in Names
             PROVE  /\ Setting(o) \cap BeforeDashes # {} =>
                         config[o] = Parsed(o, argv[Min(Setting(o) \cap BeforeDashes)].text)
                    /\ Setting(o) = {} => config[o] = Default
  BY DEF FirstSettingCounts
<1> DEFINE S == Setting(o)
<1>1. config[o] = IF S = {} THEN Default ELSE Parsed(o, argv[Min(S)].text)
  BY FirstOfAll
<1>2. S \subseteq DOMAIN argv /\ S \subseteq Nat
  <2>1. DOMAIN argv = 1..Len(argv) /\ Len(argv) \in Nat
    BY LenProperties DEF IInv, TypeOK
  <2>2. S \subseteq 1..Len(argv)
    BY <2>1 DEF Setting
  <2> QED BY <2>1, <2>2
<1>4. ASSUME S \cap BeforeDashes # {}
      PROVE  Min(S \cap BeforeDashes) = Min(S)
  <2>1. PICK m \in S : \A k \in S : m <= k
    <3>1. S # {} /\ S \in SUBSET Nat
      BY <1>2, <1>4
    <3> QED BY <3>1, LeastElement
  <2>2. m \in BeforeDashes
    <3>1. PICK j \in S \cap BeforeDashes : TRUE
      BY <1>4
    <3>2. \A k \in DOMAIN argv : k <= m => k <= j
      <4>1. DOMAIN argv \subseteq Nat
        BY LenProperties DEF IInv, TypeOK
      <4>2. m <= j /\ m \in Nat /\ j \in Nat
        BY <1>2, <2>1, <3>1
      <4> QED BY <4>1, <4>2
    <3> QED BY <1>2, <2>1, <3>1, <3>2 DEF BeforeDashes
  <2>3. /\ Min(S) \in S /\ \A k \in S : Min(S) <= k
    BY <2>1 DEF Min
  <2>4. /\ Min(S \cap BeforeDashes) \in S \cap BeforeDashes
        /\ \A k \in S \cap BeforeDashes : Min(S \cap BeforeDashes) <= k
    BY <2>1, <2>2 DEF Min
  <2> HIDE DEF S
  <2>5. Min(S) = m /\ Min(S \cap BeforeDashes) = m
    BY <1>2, <2>1, <2>2, <2>3, <2>4
  <2> QED BY <2>5
<1> QED BY <1>1, <1>4

LEMMA OutcomeHolds == IInv => OutcomeRight
<1> SUFFICES ASSUME IInv, outcome # "parsing" PROVE OutcomeRight
  BY DEF OutcomeRight
<1>1. CASE outcome = "thrown"
  BY <1>1 DEF IInv, ReadInv, OutcomeRight
<1>2. CASE outcome \in {"help", "running"}
  <2>1. /\ DOMAIN argv = 1..Len(argv) /\ Len(argv) \in Nat /\ n = Len(argv) + 1
    BY <1>2, LenProperties DEF IInv, TypeOK, EndInv
  <2>2. \A i \in DOMAIN argv : i < n
    BY <2>1
  <2>3. \A i \in DOMAIN argv : ~Unreadable(argv[i])
    BY <1>2, <2>2 DEF IInv, ReadInv
  <2>4. values[Help] # <<>> <=> \E i \in DOMAIN argv : AsksHelp(argv[i])
    BY <1>2, <2>2 DEF IInv, HelpInv
  <2>5. BeforeDashes \subseteq DOMAIN argv
    BY DEF BeforeDashes
  <2> QED BY <1>2, <2>3, <2>4, <2>5 DEF IInv, EndInv, OutcomeRight
<1> QED BY <1>1, <1>2 DEF IInv, TypeOK

-------------------------------------------------------------------------------
(* The theorems.                                                           *)

\* parse keeps lists of arguments and values of the options' types, whatever
\* is on the command line.
THEOREM OptionsTypeCorrect == Spec => []TypeOK
  BY InvariantHolds, PTL DEF IInv

\* value(0) in main is the first setting on the command line when that stands
\* before "--", and the default when there is none.
THEOREM FirstSettingCorrect == Spec => []FirstSettingCounts
  BY InvariantHolds, FirstHolds, PTL

\* main runs, helps or dies as the arguments before "--" say, unless what
\* follows asks for help or holds a number that cannot be read.
THEOREM OutcomeCorrect == Spec => []OutcomeRight
  BY InvariantHolds, OutcomeHolds, PTL
===============================================================================
