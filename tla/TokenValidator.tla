---------------------------- MODULE TokenValidator ----------------------------
(***************************************************************************)
(* design-system/scripts/html-token-validator.py: what validate_html finds *)
(* in a document.  A document is the sequence of its marks: what the       *)
(* regular expressions look for, and what a browser takes for a style.     *)
(* Two marks are in the context of each other if they are at most two      *)
(* apart and there is no "gap", a hundred characters of anything, between. *)
(***************************************************************************)
EXTENDS Naturals, Sequences, SequencesExt, FiniteSetsExt

\* FORBIDDEN_PATTERNS, as literals that should be tokens: a colour, the same
\* colour as the fallback of a var(...), colours of other forms, white or a
\* brand colour with transparency, and a font.
Literals == {"hex", "hex-fallback", "rgb", "rgba", "hsl", "brand-rgba", "font"}

\* What has the form of a hex colour and is none: an entity (&#9670;), a text
\* (#100), an id or a link (#add), a comment.
Forms == Literals \cup {"lookalike"}

Tags == {"<style", "</style", "<script", "</script"}

\* "end" is the quotation mark at the end of a style attribute, and "unseen" a
\* literal of a form no pattern has: a colour by its name, hsla(...), a font
\* such as 'Lato' or 'Verdana', which [^v][^a][^r] passes over too.
Marks == Forms \cup Tags \cup {"tokens.css", "url", "style=", "end", "unseen", "gap"}

\* get_context: up to a hundred characters on both sides.
Near(doc, i) ==
    {j \in DOMAIN doc :
        /\ j \in i - 2 .. i + 2
        /\ \A k \in DOMAIN doc :
              (i < k /\ k < j) \/ (j < k /\ k < i) => doc[k] # "gap"}

Context(doc, i) == {doc[j] : j \in Near(doc, i)}

\* pre.find(mark) and pre.rfind(mark); 0 is none.
FirstBefore(doc, i, mark) == Min({i} \cup {j \in 1 .. i - 1 : doc[j] = mark}) % i
LastBefore(doc, i, mark) == Max({0} \cup {j \in 1 .. i - 1 : doc[j] = mark})

\* Mutant: find for rfind.
IsInsideTheFirst(doc, i, opening, closing) ==
    FirstBefore(doc, i, opening) > FirstBefore(doc, i, closing)

IsInsideBlock(doc, i, opening, closing) ==
    LastBefore(doc, i, opening) > LastBefore(doc, i, closing)

\* Mutant: white with transparency is a colour like any other.
IsAllowedUnlessRgba(doc, i) ==
    \/ "url" \in Context(doc, i)
    \/ doc[i] \in {"hex", "hex-fallback"} /\ "hex-fallback" \in Context(doc, i)

\* is_allowed_exception, is_allowed_rgba, and a literal that its context also
\* has as a fallback.
IsAllowed(doc, i) ==
    \/ "url" \in Context(doc, i)
    \/ doc[i] = "brand-rgba"
    \/ doc[i] \in {"hex", "hex-fallback"} /\ "hex-fallback" \in Context(doc, i)

\* validate_html: what is an error.
Hardcoded(doc) ==
    {i \in DOMAIN doc :
        /\ doc[i] \in Forms
        /\ ~IsInsideBlock(doc, i, "<script", "</script")
        /\ ~IsAllowed(doc, i)
        /\ \/ IsInsideBlock(doc, i, "<style", "</style")
           \/ "style=" \in Context(doc, i)}

MissingImport(doc) == \A i \in DOMAIN doc : doc[i] # "tokens.css"

\* ValidationResult.passed
Passes(doc) == ~MissingImport(doc) /\ Hardcoded(doc) = {}

-----------------------------------------------------------------------------
(***************************************************************************)
(* A document as a browser reads it, from its start: a block ends with its *)
(* own end tag and all else in it is text, a style attribute with its      *)
(* quotation mark.                                                         *)
(***************************************************************************)
After(block, mark) ==
    CASE block = "body" /\ mark = "<style" -> "style"
      [] block = "body" /\ mark = "<script" -> "script"
      [] block = "body" /\ mark = "style=" -> "inline"
      [] block = "style" /\ mark = "</style" -> "body"
      [] block = "script" /\ mark = "</script" -> "body"
      [] block = "inline" /\ mark = "end" -> "body"
      [] OTHER -> block

\* The block each mark is in, and the one the document ends in.
BlockAt(doc) ==
    LET at[i \in 1 .. Len(doc) + 1] ==
            IF i = 1 THEN "body" ELSE After(at[i - 1], doc[i - 1])
    IN  at

\* No block or attribute has the tag of a block in its text.
TagsAreTags(doc) ==
    \A i \in DOMAIN doc :
        /\ doc[i] \in {"<style", "<script"} => BlockAt(doc)[i] = "body"
        /\ doc[i] = "</style" => BlockAt(doc)[i] = "style"
        /\ doc[i] = "</script" => BlockAt(doc)[i] = "script"

\* The literals of any form that style the page.
StylesThePage(doc) ==
    {i \in DOMAIN doc :
        doc[i] \in Literals \cup {"unseen"} /\ BlockAt(doc)[i] \in {"style", "inline"}}

\* Those that may stay, because they are excused, no pattern has their form,
\* or they are more than a hundred characters into their attribute.
Overlooked(doc) ==
    {i \in StylesThePage(doc) :
        \/ IsAllowed(doc, i)
        \/ doc[i] = "unseen"
        \/ BlockAt(doc)[i] = "inline" /\ "style=" \notin Context(doc, i)}

\* What styles nothing, and is taken for a style all the same: whatever has the
\* form of a literal in a style block or near a style attribute.
FalseAlarms(doc) ==
    {i \in DOMAIN doc \ StylesThePage(doc) :
        /\ doc[i] \in Forms /\ ~IsAllowed(doc, i)
        /\ \/ BlockAt(doc)[i] = "style"
           \/ BlockAt(doc)[i] \in {"body", "inline"} /\ "style=" \in Context(doc, i)}
================================================================================
