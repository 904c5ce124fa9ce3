------------------------------- MODULE Options --------------------------------
(***************************************************************************)
(* The command line: OptionParser::parse of popl with the kinds of option  *)
(* that cliMain registers, and what main makes of the result.              *)
(*                                                                         *)
(* No option has the attributes inactive or required, and none takes a     *)
(* separate argument (Argument::required): Switch takes none, Implicit     *)
(* takes one after "=" only.  The text of an argument is what tells apart  *)
(* how options read it: a whole number, a decimal one, or neither.         *)
(***************************************************************************)
EXTENDS Naturals, Sequences, FiniteSets, SequencesExt

CONSTANTS
  Switches,    \* the options of type Switch,
  Help,        \* among them --help, which has a short name too,
  HelpLetter,  \* -h
  IntOptions, DoubleOptions, TextOptions, \* those of type Implicit<T>
  Wholes, Decimals, Words, \* the texts given to options
  Empty,       \* no text
  Stranger,    \* a long name, and
  StrangeLetter, \* a short name nobody registered
  On,          \* true
  Default,     \* an option's default
  MaxArgs      \* bound: the number of arguments

Names == Switches \cup IntOptions \cup DoubleOptions \cup TextOptions
Texts == Wholes \cup Decimals \cup Words
Settings == Texts \cup {On, Default}

\* Names are unique: add throws otherwise.  A text is of one kind.
ASSUME OptionsAssumption ==
  /\ Help \in Switches /\ Stranger \notin Names
  /\ Switches \cap (IntOptions \cup DoubleOptions \cup TextOptions) = {}
  /\ IntOptions \cap DoubleOptions = {} /\ TextOptions \cap (IntOptions \cup DoubleOptions) = {}
  /\ Wholes \cap Decimals = {} /\ Words \cap (Wholes \cup Decimals) = {}
  /\ Empty \notin Settings
  /\ MaxArgs \in Nat

VARIABLES
  argv,       \* the arguments, without the program's name
  n,          \* parse's loop variable
  values,     \* values_ of each option
  nonOption,  \* non_option_args_
  unknown,    \* unknown_options_
  outcome,    \* how far main is
  config      \* the values Initialize is called with

vars == <<argv, n, values, nonOption, unknown, outcome, config>>

-------------------------------------------------------------------------------
(* Arguments: --name, --name=text, -letters, --, and anything else.        *)

Long(o, t)     == [kind |-> "long", name |-> o, text |-> t, letters |-> <<>>]
Short(letters) == [kind |-> "short", name |-> Stranger, text |-> Empty, letters |-> letters]
Other(k)       == [kind |-> k, name |-> Stranger, text |-> Empty, letters |-> <<>>]

Arguments ==
  {Long(o, t) : o \in Names, t \in Texts \cup {Empty}}
    \cup {Short(l) : l \in BoundedSeq({HelpLetter, StrangeLetter}, 2)}
    \cup {Long(Stranger, Empty), Other("dashes"), Other("plain")}

\* Nobody's long name, or a Switch with a text.
Unknown(arg) == arg.name \notin Names \/ (arg.name \in Switches /\ arg.text # Empty)

\* The option's operator >> reads the text, and all of it.
Reads(o, t) ==
  CASE o \in IntOptions -> t \in Wholes
    [] o \in DoubleOptions -> t \in Wholes \cup Decimals
    [] OTHER -> TRUE

\* Mutant: the text is taken as it is.
TakesText(o, t) == IF o \in Switches THEN On ELSE t

\* What parse of a Switch or an Implicit appends to values_.
Parsed(o, t) ==
  CASE o \in Switches -> On
    [] o \notin Switches /\ t = Empty -> Default
    [] OTHER -> t

\* Mutant: the last value, the one update_reference hands out.
LastValue(o) == IF values[o] = <<>> THEN Default ELSE Last(values[o])

\* value(0): the first value, or the default.  A Switch's is false.
Value(o) == IF values[o] = <<>> THEN Default ELSE Head(values[o])

-------------------------------------------------------------------------------
\* Every variable has its type.
TypeOK ==
  /\ argv \in Seq(Arguments) /\ Len(argv) <= MaxArgs
  /\ n \in 1..(Len(argv) + 1)
  /\ values \in [Names -> Seq(Settings)]
  /\ nonOption \in Seq(Arguments) /\ unknown \in Seq(Arguments)
  /\ outcome \in {"parsing", "thrown", "help", "running"}
  /\ config \in [Names -> Settings]

Init ==
  /\ argv \in BoundedSeq(Arguments, MaxArgs)
  /\ n = 1
  /\ values = [o \in Names |-> <<>>]
  /\ nonOption = <<>> /\ unknown = <<>>
  /\ outcome = "parsing"
  /\ config = [o \in Names |-> Default]

\* The loop is at an argument of this kind, and goes on to the next one.
At(kind) ==
  /\ outcome = "parsing" /\ n <= Len(argv)
  /\ argv[n].kind = kind
  /\ n' = n + 1
  /\ UNCHANGED <<argv, config>>

LongOption ==
  LET arg == argv[n] IN
  /\ At("long")
  /\ ~Unknown(arg) /\ (arg.text = Empty \/ Reads(arg.name, arg.text))
  /\ values' = [values EXCEPT ![arg.name] = Append(@, Parsed(arg.name, arg.text))]
  /\ UNCHANGED <<nonOption, unknown, outcome>>

UnknownOption ==
  /\ At("long")
  /\ Unknown(argv[n])
  /\ unknown' = Append(unknown, argv[n])
  /\ UNCHANGED <<values, nonOption, outcome>>

\* Mutant: recorded as if it were unknown.
InvalidIsUnknown ==
  /\ At("long")
  /\ ~Unknown(argv[n]) /\ argv[n].text # Empty /\ ~Reads(argv[n].name, argv[n].text)
  /\ unknown' = Append(unknown, argv[n])
  /\ UNCHANGED <<values, nonOption, outcome>>

\* invalid_option is thrown, out of parse and out of main.
InvalidOption ==
  /\ At("long")
  /\ ~Unknown(argv[n]) /\ argv[n].text # Empty /\ ~Reads(argv[n].name, argv[n].text)
  /\ outcome' = "thrown"
  /\ UNCHANGED <<values, nonOption, unknown>>

\* Letter by letter: each -h sets the switch, one strange letter makes the
\* argument unknown as well.  A lone dash leaves no trace.
ShortOptions ==
  LET letters == argv[n].letters
      helps   == {k \in DOMAIN letters : letters[k] = HelpLetter}
  IN
  /\ At("short")
  /\ values' = [values EXCEPT ![Help] = @ \o [k \in 1..Cardinality(helps) |-> On]]
  /\ unknown' = IF helps = DOMAIN letters THEN unknown ELSE Append(unknown, argv[n])
  /\ UNCHANGED <<nonOption, outcome>>

\* What follows is copied, and the loop goes through it all the same.
Dashes ==
  /\ At("dashes")
  /\ nonOption' = nonOption \o SubSeq(argv, n + 1, Len(argv))
  /\ UNCHANGED <<values, unknown, outcome>>

NonOption ==
  /\ At("plain")
  /\ nonOption' = Append(nonOption, argv[n])
  /\ UNCHANGED <<values, unknown, outcome>>

\* parse returns: main prints the help, or initialises source and sink.
Main ==
  /\ outcome = "parsing" /\ n > Len(argv)
  /\ \/ /\ values[Help] # <<>>
        /\ outcome' = "help" /\ UNCHANGED config
     \/ /\ values[Help] = <<>>
        /\ outcome' = "running"
        /\ config' = [o \in Names |-> Value(o)]
  /\ UNCHANGED <<argv, n, values, nonOption, unknown>>

Next ==
  \/ LongOption \/ UnknownOption \/ InvalidOption
  \/ ShortOptions \/ Dashes \/ NonOption
  \/ Main

Spec == Init /\ [][Next]_vars

-------------------------------------------------------------------------------
(* Properties, in terms of the whole command line.                         *)

\* The arguments before the first "--".
BeforeDashes == {i \in DOMAIN argv : \A k \in DOMAIN argv : k <= i => argv[k].kind # "dashes"}

\* The arguments that set option o.
Setting(o) ==
  {i \in DOMAIN argv : argv[i].kind = "long" /\ argv[i].name = o /\ ~Unknown(argv[i])}

\* The program runs with the first setting of an option that stands before
\* "--".  A later one, as from somebody who appends to a script's command
\* line, has no effect, and an option that nothing sets has its default.
FirstSettingCounts ==
  outcome = "running" =>
    \A o \in Names :
      /\ Setting(o) \cap BeforeDashes # {} =>
           config[o] = Parsed(o, argv[Min(Setting(o) \cap BeforeDashes)].text)
      /\ Setting(o) = {} => config[o] = Default

\* One number that cannot be read ends the program, and even when help was
\* asked for before it; help is given else, and nothing started.
Unreadable(arg) ==
  /\ arg.kind = "long"
  /\ \/ arg.name \in IntOptions /\ arg.text \in Decimals \cup Words
     \/ arg.name \in DoubleOptions /\ arg.text \in Words
AsksHelp(arg) ==
  \/ arg.kind = "long" /\ arg.name = Help /\ arg.text = Empty
  \/ arg.kind = "short" /\ \E i \in DOMAIN arg.letters : arg.letters[i] = HelpLetter
OutcomeRight ==
  outcome # "parsing" =>
    /\ (\E i \in BeforeDashes : Unreadable(argv[i])) => outcome = "thrown"
    /\ (\A i \in DOMAIN argv : ~Unreadable(argv[i])) =>
         /\ (\E i \in BeforeDashes : AsksHelp(argv[i])) => outcome = "help"
         /\ (\A i \in DOMAIN argv : ~AsksHelp(argv[i])) => outcome = "running"

-------------------------------------------------------------------------------
(* What the repository says of this code and the code does not do.         *)

\* "from here on only non opt args": what follows "--" sets no option.
OptionsEndAtDashes ==
  outcome = "running" =>
    \A o \in Names : Setting(o) \cap BeforeDashes = {} => config[o] = Default
===============================================================================
