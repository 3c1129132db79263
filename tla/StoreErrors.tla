----------------------------- MODULE StoreErrors -----------------------------
(* What the store makes of a failure (crates/store/src/error.rs) and what a   *)
(* caller is to do about it (ErrorClass, crates/core/src/error.rs).           *)
(*                                                                            *)
(* A text is a sequence of words; the case of its letters is left out.  A word *)
(* is the scheme of a URL, one of the texts classify_runtime looks for, Space *)
(* (white space), Stop (a quote, ">" or ")", which a URL may well have inside *)
(* it), Redacted, Nothing, or anything else.                                  *)
EXTENDS Naturals, SequencesExt

Space    == "space"
Stop     == "stop"
Redacted == "<url-redacted>"
Nothing  == ""

\* In the order in which they are searched for.
schemes == <<"postgresql://", "postgres://", "sqlite://">>

\* Where the search for the end of a URL stops: at Redacted with its last character.
Ends(word) == word \in {Space, Stop, Redacted}

\* The word at i comes after a scheme, and the search has not stopped before it.
InUrl(text, scheme, i) ==
    \E j \in DOMAIN text :
        j < i /\ text[j] = scheme /\ \A k \in DOMAIN text : j < k /\ k < i => ~Ends(text[k])

\* One scheme's pass.  What the search stopped at stays: of Redacted, its ">".
Replace(text, scheme) ==
    [i \in DOMAIN text |->
        IF InUrl(text, scheme, i)
        THEN CASE text[i] \in {Space, Stop} -> text[i]
               [] text[i] = Redacted        -> Stop
               [] OTHER                     -> Nothing
        ELSE IF text[i] = scheme THEN Redacted ELSE text[i]]

sanitize_message(raw) == Replace(Replace(Replace(raw, schemes[1]), schemes[2]), schemes[3])

\* Mutant: the causes are joined to the outermost text as they are.
sanitize_full_chain_Outermost(chain) ==
    [layer \in DOMAIN chain |-> IF layer = 1 THEN sanitize_message(chain[layer]) ELSE chain[layer]]

\* An error and the causes below it, each by itself, to be joined with " | ".
sanitize_full_chain(chain) == [layer \in DOMAIN chain |-> sanitize_message(chain[layer])]

\* A DbErr has a variant and a chain of texts.
categorize(variant) ==
    CASE variant \in {"Conn", "ConnectionAcquire"}                    -> "Connection"
      [] variant \in {"Exec", "Query"}                                -> "Runtime"
      [] variant = "Migration"                                        -> "Migration"
      [] variant \in {"Type", "Json", "AttrNotSet", "ConvertFromU64"} -> "Schema"
      [] variant \in {"RecordNotInserted", "RecordNotUpdated"}        -> "Integrity"
      [] OTHER                                                        -> "Other"

DatabaseCategory == {"Connection", "Runtime", "Migration", "Schema", "Integrity", "Other"}

\* Mutant: the text is kept as it came.
FromDbErr_Raw(err) ==
    [kind |-> "Database", category |-> categorize(err.variant),
     message |-> err.chain]

\* From<DbErr>: the error itself is dropped.
FromDbErr(err) ==
    [kind |-> "Database", category |-> categorize(err.variant),
     message |-> sanitize_full_chain(err.chain)]

\* Every other kind has its text from the store itself.
StoreErrorKinds ==
    {"Database", "InvalidLimit", "SchemaDrift", "NotFound", "InvalidUrl", "Serialization"}

ErrorClass == {"Transient", "Auth", "Config", "Container", "Fatal"}

TransientTexts == {"40001", "40p01", "database is locked", "database is busy", "deadlock"}

\* Mutant: a failure nobody has a code for is worth another try.
classify_runtime_Optimistic(sanitized) == "Transient"

classify_runtime(sanitized) ==
    IF \E layer \in DOMAIN sanitized : ToSet(sanitized[layer]) \cap TransientTexts # {}
    THEN "Transient" ELSE "Fatal"

classify_database(category, message) ==
    CASE category = "Connection" -> "Transient"
      [] category = "Runtime"    -> classify_runtime(message)
      [] OTHER                   -> "Fatal"

classify(error) ==
    CASE error.kind = "Database"   -> classify_database(error.category, error.message)
      [] error.kind = "InvalidUrl" -> "Config"
      [] OTHER                     -> "Fatal"

is_retriable(class) == class = "Transient"
=============================================================================
