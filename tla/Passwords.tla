---- MODULE Passwords ----
(* Choosing a password: the checklist of the form, which the browser computes,    *)
(* and the policy of the API, which decides.  A character is a number: adjacent   *)
(* letters are adjacent code points, and one of every other kind is enough, as    *)
(* no rule tells characters of one kind apart but by the tables below.            *)
EXTENDS Integers, Sequences, FiniteSets

CONSTANTS
  MinLength, MaxLength,       \* 12 and 256
  RepeatLimit, SequenceLimit, \* 4 and 6
  CoreLength, TokenLength,    \* 5 and 4
  Blocked, ServiceTerms,      \* blockedPasswords, serviceTerms
  RawTokens,                  \* the parts of the member's address and name
  Longest                     \* bound: characters that are typed

ASSUME PasswordAssumption ==
  {MinLength, MaxLength, RepeatLimit, SequenceLimit, CoreLength, TokenLength, Longest} \subseteq Nat
    /\ CoreLength # 0

VARIABLES
  typed,    \* what is in the field
  outcome   \* of the form: "typing", "blocked", or the answer of the API

passwordVars == <<typed, outcome>>

Letters == {1, 2, 3}
Digit == 5
Symbol == 7
Capital == 9
Ligature == 8
Characters == Letters \cup {Digit, Symbol, Capital, Ligature}
Alphanumeric == Letters \cup {Digit}

(* NFKC takes a compatibility character apart. *)
Normalise(s) ==
  LET out[n \in 0..Len(s)] ==
        IF n = 0 THEN <<>> ELSE out[n - 1] \o (IF s[n] = Ligature THEN <<1, 2>> ELSE <<s[n]>>)
  IN out[Len(s)]
Lower(s) == [i \in DOMAIN s |-> IF s[i] = Capital THEN 2 ELSE s[i]]
Folded(s) == Lower(Normalise(s))
Bare(s) ==
  LET out[n \in 0..Len(s)] ==
        IF n = 0 THEN <<>> ELSE out[n - 1] \o (IF s[n] \in Alphanumeric THEN <<s[n]>> ELSE <<>>)
  IN out[Len(s)]

Includes(s, t) == \E i \in 0..(Len(s) - Len(t)) : SubSeq(s, i + 1, i + Len(t)) = t

-----------------------------------------------------------------------------
(* The scans, which the browser and the API have alike *)

(* How many characters, up to each, step by as much; and the most that do. *)
Runs(s, step) ==
  LET run[n \in 0..Len(s)] ==
        IF n = 0 THEN 0 ELSE IF n > 1 /\ s[n] - s[n - 1] = step THEN run[n - 1] + 1 ELSE 1
  IN run
LongestRun(s, step) ==
  LET runs == Runs(s, step) IN
  CHOOSE n \in 0..Len(s) : (\E i \in DOMAIN runs : runs[i] = n) /\ \A i \in DOMAIN runs : runs[i] <= n

LongestRepeat(s) == LongestRun(s, 0)
LongestSequence(s) ==
  LET up == LongestRun(s, 1)
      down == LongestRun(s, -1) IN
  IF up > down THEN up ELSE down

(* personalTokens: no normalisation here, and short ones are left out. *)
Tokens(raw) == {t \in {Bare(Lower(r)) : r \in raw} : Len(t) >= TokenLength}

-----------------------------------------------------------------------------
(* The form *)

(* Mutant: a rule of composition that the API does not have. *)
ChecklistPasses_Composed(p, raw) ==
  LET folded == Folded(p) IN
  /\ Len(Normalise(p)) \in MinLength..MaxLength
  /\ LongestRepeat(folded) < RepeatLimit
  /\ LongestSequence(folded) < SequenceLimit
  /\ ~\E t \in Tokens(raw) : Includes(Bare(folded), t)
  /\ \E i \in DOMAIN p : p[i] = Digit
  /\ ~\E t \in ServiceTerms : Includes(folded, t)

ChecklistPasses(p, raw) ==
  LET folded == Folded(p) IN
  /\ Len(Normalise(p)) \in MinLength..MaxLength
  /\ LongestRepeat(folded) < RepeatLimit
  /\ LongestSequence(folded) < SequenceLimit
  /\ ~\E t \in Tokens(raw) : Includes(Bare(folded), t)
  /\ ~\E t \in ServiceTerms : Includes(folded, t)

-----------------------------------------------------------------------------
(* The API *)

SymbolsRead(s) == [i \in DOMAIN s |-> IF s[i] = Symbol THEN 1 ELSE s[i]]
DigitsRead(s) == [i \in DOMAIN s |-> IF s[i] = Digit THEN 3 ELSE s[i]]

(* What is left between the first and the last character of a kind. *)
Trim(s, kind) ==
  LET kept == {i \in DOMAIN s : s[i] \in kind} IN
  IF kept = {} THEN <<>>
  ELSE SubSeq(s, CHOOSE i \in kept : \A j \in kept : i <= j, CHOOSE i \in kept : \A j \in kept : j <= i)
StripPadding(s) == Trim(s, Letters)
TrimEdges(s) == Trim(s, Alphanumeric)

(* The readings of a password that a list of rules would try. *)
ReductionCandidates(p) ==
  LET folded == Folded(p)
      Resolve(s) == DigitsRead(StripPadding(s)) IN
  {folded, Bare(folded), Resolve(Bare(folded)), DigitsRead(Bare(folded)),
   Resolve(Bare(SymbolsRead(folded))), Resolve(Bare(SymbolsRead(TrimEdges(folded))))}

TooCommon(p) == \E c \in ReductionCandidates(p) : Len(c) >= CoreLength /\ c \in Blocked

(* evaluatePassword, with the minimum that is configured. *)
Rejected(p, raw, minimum) ==
  LET folded == Folded(p) IN
  \/ Len(Normalise(p)) < minimum \/ Len(Normalise(p)) > MaxLength
  \/ TooCommon(p)
  \/ LongestRepeat(folded) >= RepeatLimit
  \/ LongestSequence(folded) >= SequenceLimit
  \/ \E t \in ServiceTerms, c \in ReductionCandidates(p) : Includes(c, t)
  \/ \E t \in Tokens(raw) : Includes(Bare(folded), t)

-----------------------------------------------------------------------------
PasswordInit == typed = <<>> /\ outcome = "typing"

Type(c) ==
  /\ outcome = "typing" /\ Len(typed) < Longest
  /\ typed' = Append(typed, c) /\ UNCHANGED outcome

(* breachCount: a password that leaked is refused, unless the service that tells  *)
(* is off, late or broken.                                                        *)
Breach == {"accepted", "breached"}

(* A new member is known to the form; who comes with a reset link is not, but the *)
(* API knows the account.                                                         *)
SubmitPassword ==
  /\ outcome = "typing"
  /\ \E known \in {{}, RawTokens}, minimum \in {MinLength, MinLength + 1} :
       outcome' \in IF ~ChecklistPasses(typed, known) THEN {"blocked"}
                    ELSE IF Rejected(typed, RawTokens, minimum) THEN {"rejected"}
                    ELSE Breach
  /\ UNCHANGED typed

PasswordNext == SubmitPassword \/ \E c \in Characters : Type(c)

PasswordSpec == PasswordInit /\ [][PasswordNext]_passwordVars

-----------------------------------------------------------------------------
(* A run of n characters that are alike, or that step by one. *)
RunOf(s, n, step) == \E i \in 1..(Len(s) - n + 1) : \A j \in i..(i + n - 2) : s[j + 1] - s[j] = step
Obvious(s) == RunOf(s, RepeatLimit, 0) \/ RunOf(s, SequenceLimit, 1) \/ RunOf(s, SequenceLimit, -1)

(* A word whose ends are written plainly, with digits around it and symbols around *)
(* these, and characters in between that stand for a letter.  (A listed word that *)
(* holds digits is found as it is, or with symbols that are left out.)            *)
ReadsAs(c, l) == c = l \/ (c = Symbol /\ l = 1) \/ (c = Digit /\ l = 3)
Disguises(s, w) ==
  \E i \in 0..(Len(s) - Len(w)) :
    /\ \A k \in 1..Len(w) : ReadsAs(s[i + k], w[k])
    /\ s[i + 1] = w[1] /\ s[i + Len(w)] = w[Len(w)]
    /\ \E m \in 0..i, n \in (i + Len(w))..Len(s) :
         /\ \A k \in DOMAIN s \ ((m + 1)..n) : s[k] = Symbol
         /\ \A k \in ((m + 1)..i) \cup ((i + Len(w) + 1)..n) : s[k] = Digit

(* A word that is in the password only if nothing but its padding is left out. *)
Holds(s, w) ==
  \E kept \in SUBSET DOMAIN s :
    /\ Cardinality(kept) = Len(w)
    /\ \A i \in kept : ReadsAs(s[i], w[Cardinality({j \in kept : j <= i})])
    /\ \A i \in DOMAIN s \ kept : s[i] \in {Digit, Symbol}

(* The form never holds back what the API would take; no word of letters of the   *)
(* list is accepted under a disguise, and none is seen where there is another     *)
(* word; and the scans find the runs there are (passwordPolicy.js:9-16 "a client  *)
(* stricter than the server would silently block passwords";                      *)
(* password-policy.ts:124-140).                                                   *)
PasswordsAreJudgedAlike ==
  /\ outcome = "blocked" => Rejected(typed, RawTokens, MinLength)
  /\ outcome = "accepted" =>
       /\ ~Obvious(Folded(typed))
       /\ \A w \in Blocked : w \in Seq(Letters) /\ Len(w) >= CoreLength => ~Disguises(Folded(typed), w)
  /\ outcome = "rejected" /\ TooCommon(typed) => \E w \in Blocked : Holds(Folded(typed), w)
====
