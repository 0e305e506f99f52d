----------------------------- MODULE QueryInput -----------------------------
(***************************************************************************)
(* The text handling of the search field of NavigationBar.jsx (search,     *)
(* lines 14-35).  A raw input is abstracted to the text it names, whether  *)
(* it carries surrounding white space and whether it has upper-case        *)
(* letters: exactly what String.trim() and toLowerCase() act on, and what  *)
(* the emptiness check of line 23 tells apart.                             *)
(***************************************************************************)
EXTENDS Naturals

CONSTANTS
    Names,   \* the non-empty domain names or visit ids a user may type
    Null     \* the absent value: null, a missing localStorage item, {} or []

ASSUME NamesAssumption == "" \notin Names

\* A raw value of the input field: a name (or nothing at all), possibly
\* padded with white space, possibly typed with capitals.
RawText == {t \in [name : Names \cup {""}, padded : BOOLEAN, upper : BOOLEAN] :
               t.name = "" => ~t.upper}

\* String.prototype.trim(): drops the surrounding white space.
Trim(t) == [t EXCEPT !.padded = FALSE]

\* String.prototype.toLowerCase(): folds capitals.
ToLower(t) == [t EXCEPT !.upper = FALSE]

\* line 19: input = textInput.current.value.toLowerCase().trim()
Normalize(t) == Trim(ToLower(t))

\* line 23: textInput.current.value.trim().length === 0
IsBlank(t) == Trim(t).name = ""

\* The texts the search field can commit: normalized and not blank.
Domain == {Normalize(t) : t \in {u \in RawText : ~IsBlank(u)}}
=============================================================================
