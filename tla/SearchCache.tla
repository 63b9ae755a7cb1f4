------------------------------ MODULE SearchCache ------------------------------
(***************************************************************************)
(* One process of ui-ux-pro-max/scripts/core.py that answers queries about *)
(* a stack's guidelines and detects domains while its data file is being   *)
(* rewritten.  Rows, search indexes and keywords are cached under the      *)
(* file's signature.  Of a row the model keeps its Status, of the rewrite  *)
(* that the rows are read one after the other from a file that may change. *)
(***************************************************************************)
EXTENDS Naturals, Sequences, SequencesExt

CONSTANTS
    NumRows,        \* rows of the file
    Attempts,       \* _load_csv_snapshot's attempts (3)
    MaxWrites,      \* bound: rewrites of the file
    MaxCalls,       \* bound: calls of the process
    None            \* no cache entry; the seed in the place of labels

Statuses == {"active", "deprecated", "unverified"}
Variants == {"legacy-only", "legacy-unavailable", "current-only", "non-legacy"}

RowNumbers == 1 .. NumRows
Files == [RowNumbers -> Statuses]

\* Some rows of a file, each under its number.
Readings == UNION {[numbers -> Statuses] : numbers \in SUBSET RowNumbers}

VARIABLES
    past,           \* what the file held under each signature so far
    unread,         \* history: signatures it had when the read of the labels
                    \* raised
    csvCache,       \* _csv_cache: rows and the signature they came from
    bm25Cache,      \* _bm25_cache: per variant, the rows indexed
    keywords,       \* _DOMAIN_KEYWORDS and their signature
    pc, phase,      \* the next step, and who asked for the rows
    call,           \* what is asked, and the signature when it began
    tries, before,  \* the loop of _load_csv_snapshot
    rows,           \* rows read
    variant,        \* what _stack_row_filter chose
    answer,         \* what the call returned
    calls           \* calls so far

caches == <<csvCache, bm25Cache, keywords>>
vars == <<past, unread, caches, pc, phase, call, tries, before, rows, variant, answer, calls>>

\* _file_signature: the size and the time in nanoseconds of the last write.
Signature == Len(past)
File == past[Signature]
Signatures == 1 .. MaxWrites + 1

Snapshots == [sig : Signatures, rows : Readings]
Calls == [does : {"search", "detect"}, legacy : BOOLEAN, since : Signatures]
Answers ==
    [why : {"none", "read-error", "empty-data", "exact", "ranked"},
     sig : Signatures \cup {None}, given : Readings, indexed : Readings]

NoAnswer == [why |-> "none", sig |-> None, given |-> <<>>, indexed |-> <<>>]

\* Every variable has a value the code can give it.
TypeOK ==
    /\ past \in Seq(Files) /\ Len(past) \in Signatures
    /\ unread \subseteq Signatures
    /\ csvCache \in Snapshots \cup {None}
    /\ bm25Cache \in [Variants -> Snapshots \cup {None}]
    /\ keywords.sig \in Signatures \cup {None}
    /\ keywords.from \in Snapshots \cup {None}
    /\ pc \in {"idle", "stat", "before", "read", "after", "loaded", "index"}
    /\ phase \in {"filter", "search", "keywords"}
    /\ call \in Calls
    /\ tries \in 0 .. Attempts
    /\ before \in Signatures
    /\ rows \in Readings
    /\ variant \in Variants
    /\ answer \in Answers
    /\ calls \in 0 .. MaxCalls

Init ==
    /\ past \in [1 .. 1 -> Files]
    /\ unread = {}
    /\ csvCache = None
    /\ bm25Cache = [v \in Variants |-> None]
    /\ keywords = [sig |-> None, from |-> None]
    /\ pc = "idle" /\ phase = "filter"
    /\ call = [does |-> "search", legacy |-> FALSE, since |-> 1]
    /\ tries = 0 /\ before = 1 /\ rows = <<>>
    /\ variant = "non-legacy"
    /\ answer = NoAnswer
    /\ calls = 0

-----------------------------------------------------------------------------
(***************************************************************************)
(* _load_csv_snapshot.                                                     *)
(***************************************************************************)

\* Somebody edits a row and saves the file: every write has its own time.
Rewrite ==
    /\ Signature <= MaxWrites
    /\ \E i \in 1 .. NumRows, status \in Statuses :
          /\ status # File[i]
          /\ past' = Append(past, [File EXCEPT ![i] = status])
    /\ UNCHANGED <<unread, caches, pc, phase, call, tries, before, rows, variant, answer, calls>>

\* Mutant: whatever is cached is good.
CachedAlways(entry) == entry # None

\* The rows are good while the file has the signature they came from.
CachedUnder(entry) == entry # None /\ entry.sig = Signature

Stat ==
    /\ pc = "stat"
    /\ IF CachedUnder(csvCache)
       THEN /\ pc' = "loaded"
            /\ rows' = csvCache.rows /\ before' = csvCache.sig
            /\ UNCHANGED tries
       ELSE /\ pc' = "before" /\ tries' = 0
            /\ UNCHANGED <<rows, before>>
    /\ UNCHANGED <<past, unread, caches, phase, call, variant, answer, calls>>

StatBefore ==
    /\ pc = "before"
    /\ pc' = "read"
    /\ tries' = tries + 1
    /\ before' = Signature
    /\ rows' = <<>>
    /\ UNCHANGED <<past, unread, caches, phase, call, variant, answer, calls>>

ReadRow ==
    /\ pc = "read"
    /\ rows' = Append(rows, File[Len(rows) + 1])
    /\ pc' = IF Len(rows) + 1 = NumRows THEN "after" ELSE "read"
    /\ UNCHANGED <<past, unread, caches, phase, call, tries, before, variant, answer, calls>>

Finish(result) == pc' = "idle" /\ answer' = result

\* Mutant: the rows are taken without a second look at the file.
UnchangedAssumed == TRUE

UnchangedSinceStat == Signature = before

\* Mutant: one try more than attempts.
MayRetryOnceMore == tries <= Attempts

MayRetry == tries < Attempts

\* The load raises: search_stack goes on without rows to choose a filter, the
\* keywords fall back to the seed, a search reports the error.
Fail ==
    /\ rows' = <<>>
    /\ IF phase = "search"
       THEN Finish([NoAnswer EXCEPT !.why = "read-error"])
       ELSE pc' = "loaded" /\ UNCHANGED answer

\* open or the reader raises, for what the file holds or for a moment: a disk,
\* bytes that are no UTF-8, csv.Error.  There is no second try.
ReadRaises ==
    /\ pc = "read"
    /\ unread' = IF phase = "keywords" THEN unread \cup {Signature} ELSE unread
    /\ Fail
    /\ UNCHANGED <<past, caches, phase, call, tries, before, variant, calls>>

StatAfter ==
    /\ pc = "after"
    /\ \/ /\ UnchangedSinceStat
          /\ csvCache' = [sig |-> before, rows |-> rows]
          /\ pc' = "loaded"
          /\ UNCHANGED <<rows, answer>>
       \/ /\ ~UnchangedSinceStat
          /\ IF MayRetry
             THEN pc' = "before" /\ UNCHANGED <<rows, answer>>
             ELSE Fail
          /\ UNCHANGED csvCache
    /\ UNCHANGED <<past, unread, bm25Cache, keywords, phase, call, tries, before, variant, calls>>

-----------------------------------------------------------------------------
(***************************************************************************)
(* search_stack.                                                           *)
(***************************************************************************)
Begin(what, asker) ==
    /\ pc = "idle"
    /\ calls < MaxCalls
    /\ calls' = calls + 1
    /\ phase' = asker
    /\ answer' = NoAnswer
    /\ \E legacy \in BOOLEAN :
          /\ legacy => what = "search"
          /\ call' = [does |-> what, legacy |-> legacy, since |-> Signature]
    /\ UNCHANGED <<past, unread, caches, tries, before, rows, variant>>

SearchStack == Begin("search", "filter") /\ pc' = "stat"

\* What _stack_row_filter makes of the rows: one generation of the framework.
\* The stack is one of STACK_CURRENT_VERSIONS.
VariantFor(seen, legacy) ==
    CASE legacy /\ "deprecated" \in ToSet(seen) -> "legacy-only"
      [] legacy /\ "deprecated" \notin ToSet(seen) -> "legacy-unavailable"
      [] ~legacy /\ "active" \in ToSet(seen) -> "current-only"
      [] OTHER -> "non-legacy"

Passes(status, v) ==
    \/ v = "legacy-only" /\ status = "deprecated"
    \/ v = "current-only" /\ status = "active"
    \/ v = "non-legacy" /\ status # "deprecated"

Filtered(seen, v) ==
    [i \in {j \in DOMAIN seen : Passes(seen[j], v)} |-> seen[i]]

\* The query may be the identifier that just one row of the generation names;
\* otherwise the file is loaded once more and ranked.
ChooseFilter ==
    /\ pc = "loaded" /\ phase = "filter"
    /\ variant' = VariantFor(rows, call.legacy)
    /\ \/ /\ pc' = "stat" /\ phase' = "search"
          /\ UNCHANGED answer
       \/ \E i \in DOMAIN Filtered(rows, variant') :
             /\ Finish([NoAnswer EXCEPT !.why = "exact", !.sig = before,
                                        !.given = [j \in {i} |-> rows[j]]])
             /\ UNCHANGED phase
    /\ UNCHANGED <<past, unread, caches, call, tries, before, rows, calls>>

\* _search_csv_detailed, as far as the data it works on.
TakeData ==
    /\ pc = "loaded" /\ phase = "search"
    /\ rows' = Filtered(rows, variant)
    /\ IF DOMAIN rows' = {}
       THEN Finish([NoAnswer EXCEPT !.why = "empty-data"])
       ELSE pc' = "index" /\ UNCHANGED answer
    /\ UNCHANGED <<past, unread, caches, phase, call, tries, before, variant, calls>>

\* Mutant: an index has one key for all generations.
IndexKeyOfFile(v) == "non-legacy"

\* The part of _get_bm25's key that varies here.
IndexKey(v) == v

\* _get_bm25 and the ranking: positions in the index are positions in rows.
Rank ==
    /\ pc = "index"
    /\ LET cached == bm25Cache[IndexKey(variant)]
           fitted == [sig |-> before, rows |-> rows]
           index == IF cached # None /\ cached.sig = before THEN cached ELSE fitted
       IN  /\ bm25Cache' = [bm25Cache EXCEPT ![IndexKey(variant)] = index]
           /\ Finish([why |-> "ranked", sig |-> before,
                      given |-> rows, indexed |-> index.rows])
    /\ UNCHANGED <<past, unread, csvCache, keywords, phase, call, tries, before, rows, variant, calls>>

-----------------------------------------------------------------------------
(***************************************************************************)
(* detect_domain, as far as its keywords.                                  *)
(***************************************************************************)
\* _domain_keywords: the signature is taken before the rows are loaded.
DetectDomain ==
    /\ Begin("detect", "keywords")
    /\ pc' = IF keywords.sig = Signature THEN "idle" ELSE "stat"

\* Mutant: the keywords are filed under the signature the file has now.
KeywordsSignatureNow == Signature

KeywordsSignature == call.since

\* _load_product_keywords: the product labels of the rows, or the seed.
KeepKeywords ==
    /\ pc = "loaded" /\ phase = "keywords"
    /\ keywords' = [sig |-> KeywordsSignature,
                    from |-> IF rows = <<>> THEN None ELSE [sig |-> before, rows |-> rows]]
    /\ pc' = "idle"
    /\ UNCHANGED <<past, unread, csvCache, bm25Cache, phase, call, tries, before, rows,
                   variant, answer, calls>>

Next ==
    \/ Rewrite \/ SearchStack \/ DetectDomain
    \/ Stat \/ StatBefore \/ ReadRow \/ ReadRaises \/ StatAfter
    \/ ChooseFilter \/ TakeData \/ Rank \/ KeepKeywords

-----------------------------------------------------------------------------
(***************************************************************************)
(* What is claimed.                                                        *)
(***************************************************************************)

\* A snapshot is one: rows filed under a signature are what the file held
\* when it had that signature, never rows of two of its states.
SnapshotsAreWhole ==
    csvCache # None => csvCache.rows = past[csvCache.sig]

\* The index a query is ranked with was fitted on the very rows its positions
\* are looked up in, though generations and states of the file share a cache.
IndexFitsRows ==
    answer.why = "ranked" => answer.indexed = answer.given

\* A search answers from the file as it was at some time during the call,
\* and with the generation it was asked for.
AnswersAreCurrent ==
    answer.why \in {"ranked", "exact"} =>
        /\ answer.sig >= call.since
        /\ \A i \in DOMAIN answer.given :
              /\ answer.given[i] \in ToSet(past[answer.sig])
              /\ (answer.given[i] = "deprecated") = call.legacy

\* Keywords that a later call takes for good are the labels of the file as it
\* is, or the seed if the labels could not be read from this very state of it:
\* never labels of another state, nor the seed for a file that was being saved.
KeywordsAreOfTheFile ==
    pc = "idle" /\ keywords.sig = Signature =>
        IF keywords.from = None THEN Signature \in unread
                                ELSE keywords.from.rows = File
=============================================================================
