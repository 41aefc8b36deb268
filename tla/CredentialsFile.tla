--------------------------- MODULE CredentialsFile ---------------------------
(***************************************************************************)
(* credentials_file.py: what parse makes of a file and what require makes  *)
(* of that.  A person writes the file a character at a time, and every     *)
(* file on the way is one the server may be started on.                    *)
(*                                                                         *)
(* Characters are the ones the parser tells apart; "export" is the word,   *)
(* and the prefix is that word and one blank.  A line is a sequence of     *)
(* them, a file a sequence of lines.                                       *)
(***************************************************************************)
EXTENDS Naturals, Sequences, FiniteSets, SequencesExt

CONSTANTS
    MaxLines,       \* bound: lines of the file
    MaxCharacters   \* bound: characters of the file

ASSUME BoundsAssumption == MaxLines \in Nat \ {0} /\ MaxCharacters \in Nat

Blank      == " "
ASSIGNMENT == "="
COMMENT    == "#"
QUOTES     == {"'", "\""}
EXPORT_PREFIX == <<"export", Blank>>
Characters == {Blank, ASSIGNMENT, COMMENT, "export", "K"} \cup QUOTES

VARIABLE text

Init == text = << << >> >>

WriteCharacter ==
    \E c \in Characters :
        /\ Len(FlattenSeq(text)) < MaxCharacters
        /\ text' = [text EXCEPT ![Len(text)] = Append(@, c)]

NewLine ==
    /\ Len(text) < MaxLines
    /\ text' = Append(text, << >>)

Next == WriteCharacter \/ NewLine
Spec == Init /\ [][Next]_text

-----------------------------------------------------------------------------
strip(s) ==
    LET kept == {i \in DOMAIN s : s[i] # Blank}
    IN  IF kept = {} THEN << >> ELSE SubSeq(s, Min(kept), Max(kept))

removeprefix(s, prefix) == IF IsPrefix(prefix, s) THEN SubSeq(s, Len(prefix) + 1, Len(s)) ELSE s

\* [mutant] A quote on one side is enough.
UnquotedUnmatched(v) ==
    IF Len(v) >= 2 /\ Head(v) \in QUOTES THEN SubSeq(v, 2, Len(v) - 1) ELSE v

\* Only the first one separates: a value may hold another.
partition(s) == LET at == Min({i \in DOMAIN s : s[i] = ASSIGNMENT})
                IN  <<SubSeq(s, 1, at - 1), SubSeq(s, at + 1, Len(s))>>

_unquoted(v) ==
    IF Len(v) >= 2 /\ Head(v) \in QUOTES /\ Last(v) = Head(v)
    THEN SubSeq(v, 2, Len(v) - 1) ELSE v

_is_an_assignment(line) ==
    LET stripped == strip(line)
    IN  /\ stripped # << >> /\ Head(stripped) # COMMENT
        /\ ASSIGNMENT \in {stripped[i] : i \in DOMAIN stripped}

_assignment(line) ==
    LET parts == partition(removeprefix(strip(line), EXPORT_PREFIX))
    IN  [name |-> strip(parts[1]), value |-> _unquoted(strip(parts[2]))]

\* [mutant] The first assignment of a name stays.
FirstStays(mapping, a) == mapping @@ (a.name :> a.value)

\* dict(...): what is assigned later replaces what was assigned before.
Assign(mapping, a) ==
    [name \in DOMAIN mapping \cup {a.name} |-> IF name = a.name THEN a.value ELSE mapping[name]]

parse(file) ==
    FoldLeft(LAMBDA mapping, line : IF _is_an_assignment(line) THEN Assign(mapping, _assignment(line))
                                                               ELSE mapping,
             [name \in {} |-> << >>], file)

\* The first key that is missing or empty, and nothing if there is none.
require(mapping, keys) ==
    LET missing == {i \in DOMAIN keys : keys[i] \notin DOMAIN mapping \/ mapping[keys[i]] = << >>}
    IN  IF missing = {} THEN << >> ELSE keys[Min(missing)]

-----------------------------------------------------------------------------
(* What the person who writes the file may rely on. *)

Key == <<"K">>

OnlyBlank(s, from, to) == \A i \in from..to : s[i] = Blank

\* A value in quotes is what the service runs on, character for character: with
\* quotes, signs, comments or blanks inside, and however the line is dressed.
QuotedValueIsExact(v) ==
    \A quote \in QUOTES, before \in {<< >>, <<Blank>>, EXPORT_PREFIX}, pad \in {<< >>, <<Blank>>} :
        LET line == before \o Key \o pad \o <<ASSIGNMENT>> \o pad \o <<quote>> \o v \o <<quote>> \o pad
        IN  _is_an_assignment(line) /\ _assignment(line) = [name |-> Key, value |-> v]

\* Without quotes it is, exactly if it has no blank at either end and is not
\* itself in a pair of quotes.
BareValueIsExactUnlessDressed(v) ==
    LET edge == v # << >> /\ (Head(v) = Blank \/ Last(v) = Blank)
        pair == \E quote \in QUOTES : Len(v) > 1 /\ v[1] = quote /\ v[Len(v)] = quote
    IN  (_assignment(Key \o <<ASSIGNMENT>> \o v).value = v) <=> ~edge /\ ~pair

\* Whatever value is written, quoting it says it, and not quoting it says it unless
\* it is dressed: the person who writes a secret decides with the quotes alone.
QuotingDecides == QuotedValueIsExact(Last(text)) /\ BareValueIsExactUnlessDressed(Last(text))

\* A line that assigns the key, as a person reads it: up to its first assignment
\* sign it is the key, exported or not, among blanks.
Assigns(line, at) ==
    /\ line[at] = ASSIGNMENT
    /\ \E k \in 1..at-1 :
         /\ line[k] = "K" /\ OnlyBlank(line, k + 1, at - 1)
         /\ \/ OnlyBlank(line, 1, k - 1)
            \/ \E e \in 1..k-2 : line[e] = "export" /\ OnlyBlank(line, 1, e - 1)
                                                   /\ OnlyBlank(line, e + 1, k - 1)

\* What follows is nothing, or a pair of quotes around nothing.
Void(line, at) ==
    \/ OnlyBlank(line, at + 1, Len(line))
    \/ \E q \in at+1..Len(line)-1 : /\ line[q] \in QUOTES /\ line[q+1] = line[q]
                                    /\ OnlyBlank(line, at + 1, q - 1)
                                    /\ OnlyBlank(line, q + 2, Len(line))

\* A service is refused for its key exactly if the last line that assigns it, as
\* a person reads the file, assigns nothing, or no line assigns it; and the parser
\* still tells the two apart.
RefusedForTheLastLine ==
    LET by   == {l \in DOMAIN text : \E at \in DOMAIN text[l] : Assigns(text[l], at)}
        void == LET last == text[Max(by)]
                IN  \E at \in DOMAIN last : Assigns(last, at) /\ Void(last, at)
    IN  /\ Key \in DOMAIN parse(text) <=> by # {}
        /\ require(parse(text), <<Key>>) # << >> <=> (by = {} \/ void)
=============================================================================
