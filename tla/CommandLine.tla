----------------------------- MODULE CommandLine -----------------------------
(***************************************************************************)
(* apiscope's command line (cli_options.cpp, hook_registry.cpp, main.cpp): *)
(* one action per turn of ParseCommandLine's loop, the hooks found in the  *)
(* hook DLL and those asked for, and the command line rebuilt for the      *)
(* target.  An option stands for its short and its long form; a hook is    *)
(* asked for by the sequence of the parts between its exclamation marks.   *)
(***************************************************************************)
EXTENDS Naturals, FiniteSets, SequencesExt

CONSTANTS
  Libraries,     \* sequences of descriptors the hook DLL may export
  FixedCapacity, \* characters of a descriptor's field
  Normalize,     \* a module's name: its last component in lower case
  NameOrder,     \* canonical names <<module, export>> in ascending order
  HookTexts,     \* what --hook may be given: sequences of parts
  NonAscii,      \* those of them NarrowHookName empties
  PidTexts,      \* what --pid may be given: sequences of digits, 10 for any
                 \*   other character
  MaxPid,        \* UINT32_MAX
  Paths,         \* what --output may be given; "" among them
  Program,       \* the first target argument
  Arguments,     \* the others: sequences of characters, the three that quoting
                 \*   tells apart being "space", "quote" and "backslash"
  MaxOptions, MaxArguments, MaxWords

\* MaxPid is a number, the names stand in a row, and every word is a sequence of
\* its parts.  "all" is ASCII.
ASSUME WordsAssumption ==
  /\ MaxPid \in Nat /\ NameOrder \in Seq(ToSet(NameOrder))
  /\ \A text \in PidTexts : text \in Seq(0..10)
  /\ <<"all">> \notin NonAscii

\* Arguments are sequences.  The program is the file CreateProcessW opens by
\* that very name, and no file's name has a quote in it or ends in a backslash.
ASSUME ArgumentsAssumption ==
  /\ \A argument \in Arguments \union {Program} : argument \in Seq(ToSet(argument))
  /\ Program # <<>> /\ "quote" \notin ToSet(Program) /\ Program[Len(Program)] # "backslash"

VARIABLES
  phase,     \* "start", "options", "target" or "parsed"
  mode,      \* CommandLineOptions.mode
  items,     \* history: the options given, as <<option, value>>
  options,   \* the rest of CommandLineOptions and ParseCommandLine's locals
  available  \* availableHooks

cliVars == <<phase, mode, items, options, available>>

\* A word without characters.
Empty == ""

-----------------------------------------------------------------------------
(* The hooks the DLL describes.                                            *)

Canonical(d) == <<Normalize[d.module], d.export>>

ReadsFixedString(length) == length > 0 /\ length < FixedCapacity

IsUsable(d) == d.valid /\ ReadsFixedString(d.length) /\ d.complete

\* One unusable or repeated descriptor, and no hook is offered.
DiscoverHooks(library) ==
  LET names == {Canonical(d) : d \in ToSet(library)}
  IN IF /\ \A d \in ToSet(library) : IsUsable(d)
        /\ Cardinality(names) = Len(library)
     THEN FoldLeft(LAMBDA kept, n : IF n \in names THEN Append(kept, n) ELSE kept, <<>>, NameOrder)
     ELSE <<>>

AddHook(hooks, hook) == IF Contains(hooks, hook) THEN hooks ELSE Append(hooks, hook)

All == <<"all">>

IsQualified(text) == Len(text) = 2 /\ Empty \notin ToSet(text)

RequestedName(text) == <<Normalize[text[1]], text[2]>>

IsSupported(text) ==
  text = All \/ (IsQualified(text) /\ Contains(available, RequestedName(text)))

Asked(text) == IF text = All THEN available ELSE <<RequestedName(text)>>

AddHooks(hooks, text) == FoldLeft(AddHook, hooks, Asked(text))

\* The hooks of the requests, in the order first asked for.
ExpandHooks(requested) == FoldLeft(AddHooks, <<>>, requested)

-----------------------------------------------------------------------------
(* Process identifiers: the value so far, refused as soon as it is too     *)
(* large, so the 64-bit product cannot wrap.  0 stands for a refusal.      *)

ParseProcessIdWrapping(text) ==  \* defect: a 32-bit accumulator
  IF text = <<>> \/ \E i \in DOMAIN text : text[i] > 9 THEN 0
  ELSE FoldLeft(LAMBDA parsed, digit : (parsed * 10 + digit) % (MaxPid + 1), 0, text)

Shift(parsed, digit) ==
  IF parsed * 10 + digit > MaxPid THEN MaxPid + 1 ELSE parsed * 10 + digit

ParseProcessId(text) ==
  LET parsed == FoldLeft(Shift, 0, text)
  IN IF text # <<>> /\ (\A i \in DOMAIN text : text[i] <= 9) /\ parsed \in 1..MaxPid THEN parsed
     ELSE 0

-----------------------------------------------------------------------------
(* The command line of the target, and how the target takes it apart.      *)

NeedsQuotes(argument) == argument = <<>> \/ ToSet(argument) \intersect {"space", "quote"} # {}

Backslashes(n) == [i \in 1..n |-> "backslash"]

\* What a character adds to the quoted text, given the backslashes held back.
QuoteCharacter(st, c) ==
  IF c = "backslash" THEN [st EXCEPT !.held = @ + 1]
  ELSE [text |-> st.text \o Backslashes(IF c = "quote" THEN 2 * st.held + 1 ELSE st.held) \o <<c>>,
        held |-> 0]

QuoteWindowsArgumentPlainEnd(argument) ==  \* defect: trailing backslashes are not doubled
  IF ~NeedsQuotes(argument) THEN argument
  ELSE LET st == FoldLeft(QuoteCharacter, [text |-> <<"quote">>, held |-> 0], argument)
       IN st.text \o Backslashes(st.held) \o <<"quote">>

QuoteWindowsArgument(argument) ==
  IF ~NeedsQuotes(argument) THEN argument
  ELSE LET st == FoldLeft(QuoteCharacter, [text |-> <<"quote">>, held |-> 0], argument)
       IN st.text \o Backslashes(2 * st.held) \o <<"quote">>

AddArgument(line, argument) ==
  (IF line = <<>> THEN line ELSE Append(line, "space")) \o QuoteWindowsArgument(argument)

BuildWindowsCommandLine(arguments) == FoldLeft(AddArgument, <<>>, arguments)

IsOdd(n) == n % 2 = 1
Half(n) == n \div 2

\* CommandLineToArgvW's rules.  In the first argument, a file name, every
\* backslash is itself; in the others 2n backslashes and a quote are n
\* backslashes and a delimiter, 2n+1 are n and a quote.
SplitCharacter(st, c) ==
  LET text == st.text \o Backslashes(IF c = "quote" THEN Half(st.held) ELSE st.held)
      within == IF st.place = "between" THEN "word" ELSE st.place
  IN CASE c = "backslash" /\ st.done # <<>> -> [st EXCEPT !.held = @ + 1, !.place = within]
       [] c = "quote" /\ IsOdd(st.held) -> [st EXCEPT !.text = Append(text, c), !.held = 0]
       [] c = "quote" /\ ~IsOdd(st.held) ->
            [st EXCEPT !.text = text, !.held = 0,
                       !.place = IF @ = "quotes" THEN "word" ELSE "quotes"]
       [] c = "space" /\ st.place # "quotes" ->
            [text |-> <<>>, held |-> 0, place |-> "between",
             done |-> IF st.place = "word" THEN Append(st.done, text) ELSE st.done]
       [] OTHER -> [st EXCEPT !.text = Append(text, c), !.held = 0, !.place = within]

SplitCommandLine(line) ==
  FoldLeft(SplitCharacter, [text |-> <<>>, held |-> 0, place |-> "between", done |-> <<>>],
           Append(line, "space")).done

-----------------------------------------------------------------------------
(* ParseCommandLine, and wmain around it.                                  *)

NoOptions ==
  [pid |-> 0, requested |-> <<>>, jsonl |-> FALSE, formatGiven |-> FALSE, path |-> Empty,
   quiet |-> FALSE, hooks |-> <<>>, target |-> <<>>, attach |-> FALSE]

CliInit ==
  /\ phase = "start" /\ mode = "Error" /\ items = <<>> /\ options = NoOptions
  /\ available \in {DiscoverHooks(library) : library \in Libraries}

Ends(result) == phase' = "parsed" /\ mode' = result

\* A single --help, --version or --list-hooks, no argument at all, or a
\* word that is no command.
SingleWord ==
  /\ phase = "start"
  /\ \E result \in {"Help", "Version", "ListHooks", "Error"} : Ends(result)
  /\ UNCHANGED <<items, options, available>>

Command ==
  /\ phase = "start"
  /\ phase' = "options"
  /\ options' \in {[NoOptions EXCEPT !.attach = attach] : attach \in BOOLEAN}
  /\ UNCHANGED <<mode, items, available>>

\* An option with a value of its kind; refused ends the parse in an error.
Give(option, value, refused, taken) ==
  /\ phase = "options" /\ Len(items) < MaxOptions
  /\ items' = Append(items, <<option, value>>)
  /\ IF refused THEN Ends("Error") /\ UNCHANGED options
     ELSE options' = taken /\ UNCHANGED <<phase, mode>>
  /\ UNCHANGED available

GivePid ==
  \E text \in PidTexts :
    Give("pid", text, ~options.attach \/ ParseProcessId(text) = 0,
         [options EXCEPT !.pid = ParseProcessId(text)])

GiveHook ==
  \E text \in HookTexts :
    Give("hook", text, text \in NonAscii \/ text = <<Empty>>,
         [options EXCEPT !.requested = Append(@, text)])

GiveFormat ==
  \E text \in {"text", "jsonl", "other"} :
    Give("format", text, text = "other",
         [options EXCEPT !.jsonl = (text = "jsonl"), !.formatGiven = TRUE])

GiveOutput ==
  \E text \in Paths : Give("output", text, FALSE, [options EXCEPT !.path = text])

GiveQuiet == Give("quiet", Empty, FALSE, [options EXCEPT !.quiet = TRUE])

\* An unknown word, or an option whose value is missing.
GiveOther == Give("other", Empty, TRUE, options)

\* "--" opens the target's command of run.
Separator ==
  /\ phase = "options"
  /\ IF options.attach THEN Ends("Error") ELSE phase' = "target" /\ UNCHANGED mode
  /\ items' = Append(items, <<"separator", Empty>>)
  /\ UNCHANGED <<options, available>>

TargetArgument ==
  /\ phase = "target" /\ Len(options.target) < MaxArguments
  /\ Len(items) + Len(options.target) < MaxWords
  /\ \E argument \in IF options.target = <<>> THEN {Program} ELSE Arguments :
       options' = [options EXCEPT !.target = Append(@, argument)]
  /\ UNCHANGED <<phase, mode, items, available>>

LacksTarget == IF options.attach THEN options.pid = 0 ELSE options.target = <<>>

LacksOutputUnlessFormat ==  \* defect: only an explicit format asks for a path
  options.path = Empty /\ options.formatGiven

LacksOutput == options.path = Empty /\ (options.formatGiven \/ options.quiet)

LacksHooks ==
  \/ ~\A i \in DOMAIN options.requested : IsSupported(options.requested[i])
  \/ ExpandHooks(options.requested) = <<>>

\* The last argument is read: the checks that follow the loop.
Finish ==
  /\ phase \in {"options", "target"}
  /\ IF LacksTarget \/ LacksOutput \/ LacksHooks THEN Ends("Error") /\ UNCHANGED options
     ELSE /\ Ends(IF options.attach THEN "Attach" ELSE "Run")
          /\ options' = [options EXCEPT !.hooks = ExpandHooks(options.requested)]
  /\ UNCHANGED <<items, available>>

CliNext ==
  \/ SingleWord \/ Command \/ GivePid \/ GiveHook \/ GiveFormat \/ GiveOutput \/ GiveQuiet
  \/ GiveOther \/ Separator \/ TargetArgument \/ Finish

-----------------------------------------------------------------------------
(* What it promises.                                                       *)

\* The values given to an option, in order, and the one that counts.
Given(option) ==
  FoldLeft(LAMBDA values, item : IF item[1] = option THEN Append(values, item[2]) ELSE values,
           <<>>, items)
LastGiven(option, default) == IF Given(option) = <<>> THEN default ELSE Last(Given(option))

\* What a numeral is worth, however large; more than MaxPid when it is none.
Numeral(text) ==
  IF text = <<>> \/ 10 \in ToSet(text) THEN MaxPid + 1
  ELSE FoldLeft(LAMBDA worth, digit : worth * 10 + digit, 0, text)

Wanted ==
  UNION {IF text = All THEN ToSet(available) ELSE {RequestedName(text)} :
           text \in ToSet(Given("hook"))}

WellFormed ==
  /\ Given("other") = <<>> /\ "other" \notin ToSet(Given("format"))
  /\ \A text \in ToSet(Given("hook")) : text = All \/ (IsQualified(text) /\ text \notin NonAscii)
  /\ Wanted # {} /\ Wanted \subseteq ToSet(available)
  /\ LastGiven("output", Empty) = Empty => Given("format") = <<>> /\ Given("quiet") = <<>>
  /\ IF options.attach
     THEN /\ Given("separator") = <<>> /\ Given("pid") # <<>>
          /\ \A text \in ToSet(Given("pid")) : Numeral(text) \in 1..MaxPid
     ELSE Given("pid") = <<>> /\ options.target # <<>>

CliTypeOK ==
  /\ phase \in {"start", "options", "target", "parsed"}
  /\ mode \in {"Help", "Version", "ListHooks", "Error", "Run", "Attach"}
  /\ options.pid \in 0..MaxPid
  /\ ToSet(available) \subseteq ToSet(NameOrder)

\* A session begins exactly when the whole command line is well formed, and
\* its options are then the last ones given, its hooks those asked for by
\* name or by "all", each once (ParseCommandLine's early returns and the
\* checks after its loop, AddHook, ParseProcessId).
AcceptedAsGiven ==
  phase = "parsed" =>
    /\ mode \in {"Run", "Attach"} <=> WellFormed
    /\ WellFormed =>
         /\ options.pid = IF options.attach THEN Numeral(LastGiven("pid", <<>>)) ELSE 0
         /\ options.jsonl = (LastGiven("format", "text") = "jsonl")
         /\ options.path = LastGiven("output", Empty)
         /\ options.quiet = (Given("quiet") # <<>>)
         /\ ToSet(options.hooks) = Wanted /\ Len(options.hooks) = Cardinality(Wanted)

\* The target takes its command line apart into the arguments given, spaces,
\* quotes and backslashes included (QuoteWindowsArgument,
\* BuildWindowsCommandLine).
ArgumentsArriveIntact ==
  phase = "target" =>
    SplitCommandLine(BuildWindowsCommandLine(options.target)) = options.target

=============================================================================
