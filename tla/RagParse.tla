------------------------------ MODULE RagParse ------------------------------
(****************************************************************************)
(* The parse lane at work on one job: the source is read from the knowledge *)
(* service piece by piece, an attachment is downloaded, checked, parsed in  *)
(* the process or by MinerU, and the text becomes the chunks of one or two  *)
(* variants.  What fails for now is tried again from the beginning.         *)
(*                                                                          *)
(* A document is [kind, access, ref, check, ext, display, original, native, *)
(* cloud]: access: the original is protected; check: what the download and  *)
(* the preflight find ("ok", "huge", "meta" for a reason that is no error,  *)
(* "hash"); display, original: the units of the two texts of a message, or  *)
(* the display text of an attachment; native, cloud: the units that the     *)
(* parser in the process and MinerU get out of the file, or Broken.         *)
(* Units are what _split_tokens counts.                                     *)
(****************************************************************************)
EXTENDS Naturals, Sequences, FiniteSets

CONSTANTS
    Documents,
    Limit, Overlap,     \* settings.chunk_max_tokens, chunk_overlap_tokens
    Attempts,           \* settings.task_max_retries
    MaxChanges,         \* bound: how often the source moves on
    MaxFaults           \* bound: failing calls

Broken == 99        \* larger than every text

VARIABLES
    doc,        \* the document of the job, of its version 1
    version,    \* the version that the knowledge service holds by now
    pc, attempt,
    display, original,  \* the units of the texts that were read
    parsed,     \* the document that was parsed: [units, by]
    made,       \* the chunks: [variant, of, first, last]
    outcome,    \* "none", "succeeded", "metadata_only", "failed"
    faults

vars == <<doc, version, pc, attempt, display, original, parsed, made, outcome, faults>>
read == <<display, original, parsed, made>>

Unparsed == [units |-> 0, by |-> "none"]

Init ==
    /\ doc \in Documents
    /\ version = 1 /\ pc = "metadata" /\ attempt = 1
    /\ display = 0 /\ original = 0 /\ parsed = Unparsed
    /\ made = {} /\ outcome = "none" /\ faults = 0

Fault == faults < MaxFaults /\ faults' = faults + 1
To(next) == pc' = next /\ UNCHANGED <<attempt, outcome>>
Ends(how) == pc' = "done" /\ outcome' = how /\ UNCHANGED attempt

\* _retry_or_fail: what has no word on it is worth another try.
Raise(retryable) ==
    IF retryable /\ attempt < Attempts
    THEN pc' = "metadata" /\ attempt' = attempt + 1 /\ UNCHANGED outcome
    ELSE Ends("failed")

\* The message is edited, or its permissions change.
Change ==
    /\ version <= MaxChanges /\ version' = version + 1
    /\ UNCHANGED <<doc, pc, attempt, read, outcome, faults>>

-----------------------------------------------------------------------------
(* The source.  The versions of the job go with every request; a 409 is      *)
(* retried whatever its body says.                                           *)

Ask(answer) ==
    \/ version = 1 /\ answer /\ UNCHANGED faults
    \/ version # 1 /\ Raise(TRUE) /\ UNCHANGED faults
    \/ Fault /\ Raise(TRUE)

Metadata ==
    /\ pc = "metadata"
    /\ Ask(IF doc.kind = "message" THEN To("display") ELSE IF doc.ref THEN To("fetch") ELSE Ends("metadata_only"))
    /\ display' = 0 /\ original' = 0 /\ parsed' = Unparsed /\ made' = {}
    /\ UNCHANGED <<doc, version>>

\* The service compares the version first and reads the text then, of whatever version it is.
Checked(what, text) ==
    /\ pc = what /\ Ask(To(text))
    /\ UNCHANGED <<doc, version, read>>

DisplayText ==
    /\ pc = "display_text"
    /\ display' = doc.display
    /\ IF doc.display = 0 THEN Ends("metadata_only") ELSE To(IF doc.access THEN "original" ELSE "chunk")
    /\ UNCHANGED <<doc, version, original, parsed, made, faults>>

\* A message without an original is a conflict to the service, and retried.
OriginalText ==
    /\ pc = "original_text"
    /\ IF doc.original = 0 THEN Raise(TRUE) /\ UNCHANGED original
       ELSE original' = doc.original /\ To("chunk")
    /\ UNCHANGED <<doc, version, display, parsed, made, faults>>

\* A file beyond the limit ends the download like any other error of the storage.
Fetch ==
    /\ pc = "fetch"
    /\ \/ doc.check # "huge" /\ To("preflight") /\ UNCHANGED faults
       \/ doc.check = "huge" /\ Raise(TRUE) /\ UNCHANGED faults
       \/ Fault /\ Raise(TRUE)
    /\ UNCHANGED <<doc, version, read>>

Preflight ==
    /\ pc = "preflight"
    /\ CASE doc.check = "meta" -> Ends("metadata_only")
         [] doc.check = "hash" -> Raise(FALSE)
         [] OTHER -> To(IF doc.ext = "local" THEN "local" ELSE "submit")
    /\ UNCHANGED <<doc, version, read, faults>>

-----------------------------------------------------------------------------
(* The parsers.                                                              *)

Parsed(units, by) == parsed' = [units |-> units, by |-> by] /\ To("chunk")
Local ==
    /\ pc = "local"
    /\ IF doc.native = Broken THEN Ends("metadata_only") /\ UNCHANGED parsed
       ELSE Parsed(doc.native, "local")
    /\ UNCHANGED <<doc, version, display, original, made, faults>>

\* Whatever goes wrong with MinerU, a DOCX is read in the process, and nobody asks again.
Without(retryable) == IF doc.ext = "docx" THEN To("local") ELSE Raise(retryable)

\* Each call is repeated by the client first; a submission whose answer was lost starts a
\* second task.
Submit ==
    /\ pc = "submit"
    /\ \/ To("poll") /\ UNCHANGED faults
       \/ Fault /\ Without(TRUE)
    /\ UNCHANGED <<doc, version, read>>

Poll ==
    /\ pc = "poll"
    /\ \/ doc.cloud = Broken /\ Without(FALSE) /\ UNCHANGED faults
       \/ doc.cloud # Broken /\ To("download") /\ UNCHANGED faults
       \/ Fault /\ Without(TRUE)
    /\ UNCHANGED <<doc, version, read>>

\* Directly, and where that fails by the addresses that DNS over HTTPS knows.
Download ==
    /\ pc = "download"
    /\ \/ Parsed(doc.cloud, "mineru") /\ UNCHANGED faults
       \/ Fault /\ Without(TRUE) /\ UNCHANGED parsed
    /\ UNCHANGED <<doc, version, display, original, made>>

-----------------------------------------------------------------------------
(* The chunks.                                                               *)

\* _split_tokens: where the window behind the one from first to last begins.
After_Gap(first, last) == last + 2               \* mutant
After(first, last) == IF last + 1 - Overlap > first THEN last + 1 - Overlap ELSE first + 1
End(first, n) == IF first + Limit - 1 < n THEN first + Limit - 1 ELSE n
Windows(n) ==
    LET from[first \in 1..(n + Limit)] ==
          LET last == End(first, n) IN
          {<<first, last>>} \cup (IF last = n THEN {} ELSE from[After(first, last)])
    IN IF n = 0 THEN {} ELSE from[1]

\* variant: what it may be read with; of: the text it was made from.
Chunks(variant, of, n) ==
    {[variant |-> variant, of |-> of, first |-> x[1], last |-> x[2]] : x \in Windows(n)}

\* The display variant of a protected file is the text that the knowledge service shows of
\* it, if there is one, and never the file.
OfFile_Shown(d) ==                                         \* mutant
    Chunks("protected", "file", parsed.units)
        \cup (IF d.display = 0 THEN Chunks("display", "file", parsed.units) ELSE Chunks("display", "display", d.display))
OfFile(d) ==
    IF d.access THEN Chunks("protected", "file", parsed.units) \cup Chunks("display", "display", d.display)
    ELSE Chunks("display", "file", parsed.units)
OfMessage == Chunks("display", "display", display) \cup Chunks("protected", "original", original)

Chunk ==
    /\ pc = "chunk"
    /\ LET cs == IF doc.kind = "message" THEN OfMessage ELSE OfFile(doc)
           empty == doc.kind # "message" /\ parsed.units = 0 IN
       IF cs = {} \/ empty THEN Ends("metadata_only") /\ UNCHANGED made
       ELSE made' = cs /\ Ends("succeeded")
    /\ UNCHANGED <<doc, version, display, original, parsed, faults>>

Next == Change \/ Metadata \/ Checked("display", "display_text") \/ Checked("original", "original_text") \/ DisplayText \/ OriginalText
        \/ Fetch \/ Preflight \/ Local \/ Submit \/ Poll \/ Download \/ Chunk

-----------------------------------------------------------------------------
\* Every variable holds what one job of the lane can hold.
TypeOK ==
    /\ doc \in Documents /\ version \in 1..(MaxChanges + 1)
    /\ attempt \in 1..Attempts /\ faults \in 0..MaxFaults
    /\ outcome \in {"none", "succeeded", "metadata_only", "failed"} /\ (outcome = "none" <=> pc # "done")
    /\ \A c \in made : c.variant \in {"display", "protected"} /\ c.first <= c.last

\* What may be read without the right to the original is never made from the original.
Masked == doc.access => \A c \in made : c.variant = "display" => c.of = "display"

\* A job that succeeds has every variant that its document has: a failing call for the second
\* text leaves no document behind that is findable by one half only.
BothVariants == outcome = "succeeded" /\ doc.access =>
    /\ \E c \in made : c.variant = "protected"
    /\ doc.display > 0 => \E c \in made : c.variant = "display"

\* A document that is called one without content is that by itself, and not because a service
\* failed when it was read; a DOCX alone may be, behind the parser that is there for outages.
NotForAFault == outcome = "metadata_only" /\ doc.ext # "docx" =>
    IF doc.kind = "message" THEN doc.display = 0
    ELSE ~ doc.ref \/ doc.check = "meta" \/ (IF doc.ext = "local" THEN doc.native ELSE doc.cloud) \in {Broken, 0}

Size(of) == CASE of = "file" -> parsed.units [] of = "display" -> doc.display [] OTHER -> doc.original

\* The windows of a text leave out none of it, and none is longer than the limit.
Covered == \A v \in {c.variant : c \in made} :
    LET cs == {c \in made : c.variant = v} IN
    /\ \A c \in cs : c.last - c.first < Limit
    /\ \A c \in cs : UNION {x.first..x.last : x \in cs} = 1..Size(c.of)

ParsedRight == Masked /\ BothVariants /\ NotForAFault /\ Covered

\* Inductive: what the job has read where it stands, of a document it was given, and that its
\* chunks are those of what it has read; no attempt leaves anything to the next one.
OfMessages == {"display", "display_text", "original", "original_text"}
OfFiles == {"fetch", "preflight", "local", "submit", "poll", "download"}
Stands ==
    /\ pc \in {"metadata", "chunk", "done"} \cup OfMessages \cup OfFiles
    /\ pc \in OfMessages => doc.kind = "message"
    /\ pc \in OfFiles => doc.kind = "attachment" /\ doc.ref
    /\ pc = "local" => doc.ext \in {"local", "docx"}
    /\ pc \in {"submit", "poll", "download"} => doc.ext # "local"
HasRead ==
    /\ pc \in OfMessages => original = 0
    /\ pc \in {"original", "original_text"} => doc.access /\ display = doc.display /\ display # 0
    /\ (doc.kind = "message" /\ (pc = "chunk" \/ made # {})) =>
         /\ display = doc.display /\ display # 0
         /\ original = doc.original \/ ~ doc.access
         /\ IF doc.access THEN original # 0 ELSE original = 0
    /\ doc.kind = "attachment" /\ pc = "chunk" /\ doc.ext # "docx" =>
         parsed.units = IF doc.ext = "local" THEN doc.native ELSE doc.cloud
    /\ doc.kind # "message" /\ made # {} => parsed.units # 0
Makes ==
    /\ made # {} => pc = "done" /\ made = IF doc.kind = "message" THEN OfMessage ELSE OfFile(doc)
    /\ outcome = "succeeded" => made # {}
ParseInv ==
    /\ TypeOK /\ NotForAFault /\ Stands /\ HasRead /\ Makes
    /\ display \in Nat /\ original \in Nat /\ parsed.units \in Nat
=============================================================================
