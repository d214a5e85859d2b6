----------------------------- MODULE StatusPage -----------------------------
(***************************************************************************)
(* The status page of an automation (crates/signal-ha/src/status.rs): its  *)
(* state under a lock, which every setter takes once, and what a request   *)
(* is answered.  Texts, markup and times are left out.                     *)
(***************************************************************************)
EXTENDS Integers, Sequences

CONSTANTS MaxEvals     \* evaluations are counted no further (bound)

\* The values (StatusValue).
Text(s) == [type |-> "text", text |-> s]
Bool(b) == [type |-> "bool", on |-> b]
Score(f) == [type |-> "score", number |-> f]
Count(i) == [type |-> "int", number |-> i]
Pills(value, variants) == [type |-> "enum", value |-> value, variants |-> variants]
Countdown(remaining, total) ==
    [type |-> "countdown", remaining |-> remaining, total |-> total]
Cleared == Text("-")

\* StatusPage::new(): evaluations so far, the values by section and key, and the
\* sections in the order they came up.
NewPage == [evals |-> 0, sections |-> << >>, order |-> << >>]

\* A map with the entries of pairs put into it.
Updated(pairs, map) ==
    [key \in DOMAIN pairs \union DOMAIN map |->
        IF key \in DOMAIN pairs THEN pairs[key] ELSE map[key]]
Entry(key, value) == [k \in {key} |-> value]

\* Mutant: the name is noted every time.
EnsureSectionAgain(page, section) ==
    [page EXCEPT !.order = Append(@, section), !.sections = Updated(@, Entry(section, << >>))]

EnsureSection(page, section) ==
    IF section \in DOMAIN page.sections THEN page
    ELSE [page EXCEPT !.order = Append(@, section),
                      !.sections = Updated(Entry(section, << >>), @)]

\* Mutant: the section is made anew.
SetManyAnew(page, section, pairs) ==
    [EnsureSection(page, section) EXCEPT !.sections[section] = pairs]

\* set_many(): pairs is a function from keys to values.
SetMany(page, section, pairs) ==
    [EnsureSection(page, section) EXCEPT !.sections[section] = Updated(pairs, @)]

\* set(), set_bool(), set_score(), set_int(), set_enum(), set_countdown(),
\* clear_countdown().
Put(page, section, key, value) == SetMany(page, section, Entry(key, value))

\* tick().
Evaluated(page) == [page EXCEPT !.evals = IF @ < MaxEvals THEN @ + 1 ELSE @]

-----------------------------------------------------------------------------
(* Requests *)

\* render_value(): an enum shows which of its variants is the value, a countdown
\* how much of it remains, in percent.
Fragment(value) ==
    CASE value.type = "enum" ->
            [i \in DOMAIN value.variants |-> value.variants[i] = value.value]
      [] value.type = "countdown" ->
            IF value.total = 0 THEN 0
            ELSE IF value.remaining > value.total THEN 100
            ELSE (value.remaining * 100) \div value.total
      [] OTHER -> value

\* The sections that an answer lists, at their places in the order.
Listed(page) ==
    [i \in {place \in DOMAIN page.order : page.order[place] \in DOMAIN page.sections} |->
        [name |-> page.order[i], values |-> page.sections[page.order[i]]]]

\* handle_status(): as JSON, or rendered.
Answer(page, json) ==
    [evals |-> page.evals,
     sections |-> [i \in DOMAIN Listed(page) |->
        LET values == Listed(page)[i].values IN
        [key \in DOMAIN values |-> IF json THEN values[key] ELSE Fragment(values[key])]]]
=============================================================================
