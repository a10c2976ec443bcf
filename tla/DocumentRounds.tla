--------------------------- MODULE DocumentRounds ---------------------------
(***************************************************************************)
(* Signing documents, one after the other and the same PDF several times:  *)
(* plan, the card's signature, time-stamps, validation material, finish,   *)
(* and the archive time-stamp (the calls of assemble_document in           *)
(* client/card_sign.rs).  The card, the authorities and the collected      *)
(* material are external.                                                  *)
(***************************************************************************)
EXTENDS DocumentFormats

CONSTANTS
    Forms,          \* how the first PDF holds its form: "<form> <fields>"
    Flaws,          \* what is wrong with the first PDF; "" for nothing
    Algorithms,     \* signature algorithms of the cards
    RawSignatures,  \* octets an ECDSA card may answer with
    TokenCounts,    \* how many authorities may answer
    MaxRounds       \* signatures on one PDF
ASSUME RoundsAssumption == MaxRounds \in Nat \ {0} /\ Algorithms \subseteq SignatureAlgorithms

VARIABLES
    stage,      \* where the signing is
    pdf,        \* the PDF on disk
    job,        \* the parameters and the plan of the signing under way
    signature,  \* the card's answer
    tokens,     \* time-stamp tokens on it
    file,       \* the last container or CMS written
    history,    \* every signature spliced into the PDF
    stored      \* every blob written into the validation store

vars == <<stage, pdf, job, signature, tokens, file, history, stored>>

Cert == <<"certificate", "signer">>
NoFile == <<"nothing">>
NoJob == [err |-> "", format |-> "Cades"]
Materials == {NoMaterial,
    [certificates |-> <<<<"blob", 1>>, <<"blob", 1>>>>, ocsp_responses |-> <<<<"blob", 2>>>>,
     crls |-> <<>>],
    [certificates |-> <<<<"blob", 3>>>>, ocsp_responses |-> <<>>, crls |-> <<<<"blob", 4>>>>]}

\* The first PDF: a page, a form with one field whose name the next signature
\* would take, a store with one blob.
Base(form, store, annots, stream, flaw) ==
    LET fields == CASE form \in {"none", "ref none", "direct none"} -> Absent
                    [] form \in {"ref direct", "direct direct"} ->
                         Inline(IF flaw = "field twice" THEN <<7, 7>> ELSE <<7>>)
                    [] form \in {"ref ref", "direct ref"} -> Indirect(5)
        acroform == [kind |-> "acroform", fields |-> fields]
        dss == [kind |-> "dss", shape |-> "plain",
                lists |-> [k \in StoreKeys |-> IF k = "Certs" THEN Inline(<<9>>) ELSE Absent]]
        body(n) == CASE n = 1 -> [kind |-> "catalog", pages |-> 2,
                             shape |-> IF flaw = "deep" THEN "deep" ELSE "plain",
                             acro |-> [form |-> IF form = "none" THEN "none"
                                          ELSE IF form \in {"ref none", "ref direct", "ref ref"}
                                          THEN "ref" ELSE "direct",
                                       num |-> 4, dict |-> acroform],
                             other |-> Inline(<<>>),
                             dss |-> [form |-> store, num |-> 8, dict |-> dss]]
                     [] n = 2 -> [kind |-> "pages", kids |-> IF flaw = "no kids" THEN <<>> ELSE <<3>>]
                     [] n = 3 -> [kind |-> "page", annots |-> CASE annots = "none" -> Absent
                                    [] annots = "direct" -> Inline(<<7>>)
                                    [] annots = "ref" -> Indirect(6)]
                     [] n = 4 -> acroform
                     [] n = 5 -> [kind |-> "array", refs |-> <<7>>]
                     [] n = 6 -> [kind |-> "array", refs |-> <<7>>]
                     [] n = 7 -> [kind |-> "field", t |-> <<<<"Signature", 11, 0>>>>,
                                  kids |-> Absent, v |-> 0, page |-> 3]
                     [] n = 8 -> dss
                     [] n = 9 -> [kind |-> "blob", data |-> <<"blob", 0>>]
                     [] n = 10 -> [kind |-> "objects"]
        entry(n) == entry_from_row(IF flaw = "form free" /\ n = 4 THEN 0
                                   ELSE IF stream /\ n \in {5, 7} THEN 2
                                   ELSE IF stream /\ n = 10 THEN 3 ELSE 1, body(n), 10)
        trailer == [root |-> IF flaw = "no root" THEN 0 ELSE 1, size |-> 11,
                    prev |-> IF flaw = "cycle" THEN 1 ELSE 0,
                    encrypt |-> flaw = "encrypted", info |-> 2]
    IN  [cells |-> <<<<"base", 1>>>>, header |-> flaw # "not a pdf",
         start |-> IF flaw = "no startxref" THEN 0 ELSE 1,
         revs |-> <<[entries |-> [n \in 1..10 |-> entry(n)],
                     hybrid |-> [n \in {} |-> Missing], stream |-> stream,
                     filter |-> IF flaw = "filter" THEN "LZW" ELSE "none",
                     trailer |-> trailer]>>]

Init ==
    /\ stage = "idle"
    /\ pdf \in {Base(f, held, held, st, "") : f \in Forms, held \in {"none", "direct", "ref"},
                                               st \in BOOLEAN}
               \cup {Base("ref direct", "none", "none", TRUE, flaw) : flaw \in Flaws}
    /\ job = NoJob
    /\ signature = NoFile
    /\ tokens = <<>>
    /\ file = NoFile
    /\ history = <<>>
    /\ stored = {}

(***************************************************************************)
(* The steps                                                               *)
(***************************************************************************)

Object(name, content) == [name |-> name, mime |-> "text", content |-> <<"file", content>>,
                          pdf |-> [header |-> FALSE]]
\* What may be offered for signing: nothing, one file, two, two of one name.
ObjectLists == {<<>>, <<Object("a", 1)>>, <<Object("a", 1), Object("b", 2)>>,
                <<Object("a", 1), Object("a", 2)>>, <<Object("mimetype", 1)>>}
PdfObject == [name |-> "d.pdf", mime |-> "application/pdf", content |-> <<"file", 0>>, pdf |-> pdf]

\* What is asked for: a signature on the PDF, or, where the file is not a PDF,
\* one of the other formats.
Requests ==
    [format : {"Pades"}, objects : {<<PdfObject>>}, alg : {"RsaPkcs1Sha256"}, time : {<<2026>>},
     visible : BOOLEAN]
    \cup IF pdf.header THEN {}
         ELSE [format : Formats \ {"Pades"}, objects : ObjectLists, alg : Algorithms,
               time : {<<>>, <<2026>>, <<2050>>}, visible : {FALSE}]

\* plan, with whatever it refuses.
Begin(format, objects, alg, time, visible) ==
    /\ stage = "idle"
    /\ \E p \in {[cert |-> Cert, alg |-> alg, time |-> time]} : \E pl \in {plan(format, objects, p, visible)} :
       /\ job' = [err |-> pl.err, format |-> format, p |-> p, pl |-> pl]
       /\ stage' = IF pl.err = "" THEN "planned" ELSE "refused"
    /\ file' = NoFile
    /\ UNCHANGED <<pdf, signature, tokens, history, stored>>

\* The card signs the octets of to_be_signed; an RSA signature is opaque.
CardSigns(raw) ==
    /\ stage = "planned"
    /\ ~IsEcdsa(job.p.alg) => raw = CHOOSE r \in RawSignatures : TRUE
    /\ signature' = <<"signature", "card", to_be_signed(job.pl), raw>>
    /\ stage' = "signed"
    /\ UNCHANGED <<pdf, job, tokens, file, history, stored>>

\* collect_document_timestamps: n authorities answer over timestamp_digest.
CollectTimestamps(n) ==
    /\ stage = "signed"
    /\ \E stamped \in {timestamp_digest(job.pl, job.p, signature)} :
       IF stamped.err # ""
       THEN /\ job' = [job EXCEPT !.err = stamped.err]
            /\ stage' = "refused"
            /\ UNCHANGED tokens
       ELSE /\ tokens' = [i \in 1..n |-> <<"token", i, Digest(job.p.alg, stamped.value)>>]
            /\ stage' = "stamped"
            /\ UNCHANGED job
    /\ UNCHANGED <<pdf, signature, file, history, stored>>

Fail(err) ==
    /\ job' = [job EXCEPT !.err = err]
    /\ stage' = "refused"
    /\ UNCHANGED <<pdf, file, history, stored>>

\* finish without an archive time-stamp, or for a PDF before it.
Finish(material) ==
    /\ stage = "stamped"
    /\ \E done \in {finish(job.pl, job.p, signature, tokens, material)} :
       IF done.err # "" THEN Fail(done.err)
       ELSE /\ stage' = "finished"
            /\ IF job.format = "Pades"
               THEN LET ph == job.pl.placeholder IN
                    /\ pdf' = done.pdf
                    /\ history' = Append(history,
                          [range |-> ph.byte_range, over |-> signed_octets(ph)])
                    /\ stored' = stored \cup Range(material.certificates)
                          \cup Range(material.ocsp_responses) \cup Range(material.crls)
                    /\ UNCHANGED file
               ELSE file' = done.file /\ UNCHANGED <<pdf, history, stored>>
            /\ UNCHANGED job
    /\ UNCHANGED <<signature, tokens>>

\* The archive time-stamp of a CAdES container: finish_archived.
FinishArchived(material) ==
    /\ stage = "stamped"
    /\ job.format = "AsicECades"
    /\ \E manifest \in {archive_manifest(job.pl, job.p, signature)} :
       \E done \in {finish_archived(job.pl, job.p, signature, tokens, material, manifest,
                                   <<"token", 0, Digest(job.p.alg, manifest)>>)} :
       IF done.err # "" THEN Fail(done.err)
       ELSE /\ stage' = "finished"
            /\ file' = done.file
            /\ UNCHANGED <<pdf, job, history, stored>>
    /\ UNCHANGED <<signature, tokens>>

\* archive_timestamp: one more revision whose hole takes a token over it.
ArchiveTimestamp ==
    /\ stage = "finished"
    /\ job.format = "Pades"
    /\ \E prepared \in {prepare_kind(pdf, "DocumentTimestamp", FALSE)} :
       IF prepared.err # "" THEN Fail(prepared.err)
       ELSE LET ph == prepared.placeholder
                token == <<"token", 0, PdfDigest(job.p, ph)>>
                done == finish_pdf(ph, DerCells(token, <<>>)) IN
            /\ done.err = ""
            /\ pdf' = done.pdf
            /\ history' = Append(history, [range |-> ph.byte_range, over |-> signed_octets(ph)])
            /\ stage' = "archived"
            /\ UNCHANGED <<job, file, stored>>
    /\ UNCHANGED <<signature, tokens>>

\* The next signing starts from the file as it is now.
Again ==
    /\ stage \in {"finished", "archived"}
    /\ job.format = "Pades" /\ Len(history) < MaxRounds
    /\ stage' = "idle"
    /\ job' = NoJob
    /\ tokens' = <<>>
    /\ signature' = NoFile
    /\ UNCHANGED <<pdf, file, history, stored>>

Next ==
    \/ \E r \in Requests : Begin(r.format, r.objects, r.alg, r.time, r.visible)
    \/ \E raw \in RawSignatures : CardSigns(raw)
    \/ \E n \in TokenCounts : CollectTimestamps(n)
    \/ \E material \in Materials : Finish(material)
    \/ \E material \in Materials : FinishArchived(material)
    \/ ArchiveTimestamp
    \/ Again

Spec == Init /\ [][Next]_vars

(***************************************************************************)
(* Properties                                                              *)
(***************************************************************************)

Finished == stage \in {"finished", "archived"}

TypeOK ==
    /\ stage \in {"idle", "planned", "refused", "signed", "stamped", "finished", "archived"}
    /\ job.err \in {""} \cup DocumentErrors
    /\ job.format \in Formats
    /\ Len(tokens) \in {0} \cup TokenCounts
    /\ \A i \in DOMAIN history : history[i].range[3] = history[i].range[2] + Capacity

\* What a signature's byte range covers is never changed again: not by the
\* splice of its own DER, by the validation store, by the archive time-stamp,
\* or by later signatures (Placeholder::finish, append_validation_store).
SignaturesStayValid ==
    \A i \in DOMAIN history :
        LET r == history[i].range IN
        history[i].over = SubSeq(pdf.cells, r[1] + 1, r[1] + r[2])
                          \o SubSeq(pdf.cells, r[3] + 1, r[3] + r[4])

\* A byte range leaves out nothing but its own hole: it starts at the first
\* octet and reaches the end of the revision it closes (finish_placeholder).
RangesReachTheirEnd ==
    stage = "planned" /\ job.format = "Pades" =>
        LET ph == job.pl.placeholder IN
        /\ Len(signed_octets(ph)) + Capacity = Len(ph.document.cells)
        /\ job.pl.attributes[2] = Digest(job.p.alg, signed_octets(ph))

\* The file as a reader without limits sees it.
Reader == IndexTo(pdf, Len(pdf.revs))

\* The fields of the newest revision, found the way a reader finds them: from
\* the catalog through the form.
ReaderFields ==
    LET index == Reader IN
    Range(RootFields(index, object_body(index, index.trailer.root)).refs)

\* The form is a dictionary inline in the catalog that does not hold its list of
\* fields itself: there is none, or it is an array object.
ListOutOfReach(catalog) == catalog.acro.form = "direct" /\ catalog.acro.dict.fields.form # "direct"

\* Every signature written can be found from the page and from the form: its
\* field is listed in both (plan_annotation, plan_field_list).  Where the list of
\* an inline form is out of reach the form gains no field at all, and a reader
\* that walks the form sees the fields the first file had and no signature.
FieldsListed ==
    history # <<>> =>
        LET index == Reader
            catalog == object_body(index, index.trailer.root)
            page == Range(validation_references(index, object_body(index, 3).annots).refs)
            sigs == {n \in DOMAIN index.objects : object_body(index, n).kind = "sig"}
            holders(n) == {f \in page : object_body(index, f).v = n} IN
        /\ Cardinality(sigs) = Len(history)
        /\ \A n \in sigs : Cardinality(holders(n)) = 1
        /\ IF ListOutOfReach(catalog)
           THEN ReaderFields \subseteq {7}
           ELSE \A n \in sigs : holders(n) \subseteq ReaderFields

\* No two fields of the form have one name, so no reader takes one signature
\* for another (unique_field_name).
FieldNamesUnique ==
    history # <<>> =>
        LET index == Reader IN
        \A f, g \in ReaderFields : object_body(index, f).t = object_body(index, g).t => f = g

\* The evidence of every earlier signature stays in the validation store
\* (merge_validation_store, validation_store_plan).
EvidenceKept ==
    stored # {} =>
        LET index == Reader
            catalog == object_body(index, index.trailer.root)
            store == object_body(index, catalog.dss.num) IN
        stored \subseteq {object_body(index, n).data : n \in
            UNION {Range(validation_references(index, store.lists[k]).refs) : k \in StoreKeys}}

\* A revision takes numbers of its own: signatures, fields and evidence of
\* earlier revisions are never redefined (push_stream_close, /Size).
NumbersFresh ==
    \A i, j \in DOMAIN pdf.revs : i < j =>
        \A n \in DOMAIN pdf.revs[i].entries \cap DOMAIN pdf.revs[j].entries :
            pdf.revs[i].entries[n].body.kind \notin {"sig", "field", "blob", "xref", "xobject", "font"}

\* The CMS of what was written, and the value a verifier would stamp.
WrittenCms == IF file[1] = "cms" THEN {file}
              ELSE IF file[1] = "zip" THEN {file[2][i][2] : i \in {k \in DOMAIN file[2] :
                                              file[2][k][1] = SIGNATURE_ENTRY}}
              ELSE {}

\* A time-stamp attests the very octets the finished CMS carries as signature
\* value (timestamp_digest against signer_info).
TokensAttestTheSignature ==
    Finished => \A cms \in WrittenCms : \A t \in cms[6][6] : t[3] = Digest(job.p.alg, cms[6][5])

\* Every reference of a container's manifest matches the one entry it names
\* (asic::plan, check_object_names).  The archive manifest of a CAdES container
\* names every other entry but mimetype, and all its references match except
\* one: that of the signature digests the bare signature value, where the entry
\* holds the whole CMS (DocumentPlan::archive_manifest, finish_archived).
ManifestMatches ==
    Finished /\ file[1] = "zip" =>
        LET entries == Range(file[2])
            named(name) == {e \in entries : e[1] = name}
            refs == IF job.format = "AsicECades" THEN job.pl.manifest[3]
                    ELSE job.pl.xades.signed_info[3]
            matches(ref) == /\ Cardinality(named(ref[1])) = 1
                            /\ \A e \in named(ref[1]) : ref[2] = Digest(job.p.alg, e[2])
            unlisted == {"mimetype", ARCHIVE_MANIFEST_ENTRY, ARCHIVE_TIMESTAMP_ENTRY} IN
        /\ \A i \in DOMAIN refs : matches(refs[i])
        /\ \A a \in named(ARCHIVE_MANIFEST_ENTRY) :
              LET archived == Range(a[2][3]) IN
              /\ {ref[1] : ref \in archived} = {e[1] : e \in entries} \ unlisted
              /\ \A ref \in archived :
                    IF ref[1] = SIGNATURE_ENTRY
                    THEN \A cms \in WrittenCms : ref[2] = Digest(job.p.alg, cms[6][5])
                    ELSE matches(ref)
              /\ \A t \in named(ARCHIVE_TIMESTAMP_ENTRY) : t[2][3] = Digest(job.p.alg, a[2])

\* The value of big-endian octets, and a reader of SEQUENCE { r, s }.
Value(octets) ==
    LET n[i \in 0..Len(octets)] == IF i = 0 THEN 0 ELSE 256 * n[i - 1] + octets[i] IN n[Len(octets)]
Pair(der) ==
    LET lr == der[4]  ls == der[6 + lr] IN
    <<SubSeq(der, 5, 4 + lr), SubSeq(der, 7 + lr, 6 + lr + ls)>>

\* Octets that open with the tag of a SEQUENCE and the length of their own rest.
OpensAsSequence(raw) ==
    /\ Len(raw) >= 6 /\ raw[1] = 48
    /\ \/ Len(raw) = 2 + raw[2]
       \/ raw[2] = 129 /\ Len(raw) = 3 + raw[3]
       \/ raw[2] = 130 /\ Len(raw) = 4 + 256 * raw[3] + raw[4]

\* The signature value of an ECDSA CMS is SEQUENCE { r, s } of the two
\* coordinates the card answered, as positive integers (ecdsa_signature_to_cms),
\* except where the coordinates open as a SEQUENCE would: they are taken for DER
\* and go in as they are, so that no reader finds the card's pair in them.
EcdsaValueDecodes ==
    Finished /\ IsEcdsa(job.p.alg) => \A cms \in WrittenCms :
        LET der == cms[6][5][4]
            raw == signature[4]
            half == Len(raw) \div 2 IN
        IF OpensAsSequence(raw) THEN der = raw
        ELSE /\ der[1] = 48 /\ der[2] = Len(der) - 2 /\ der[3] = 2
             /\ 6 + der[4] <= Len(der) /\ der[5 + der[4]] = 2
             /\ Len(der) = 6 + der[4] + der[6 + der[4]]
             /\ \A k \in 1..2 : Pair(der)[k][1] < 128
             /\ Value(Pair(der)[1]) = Value(SubSeq(raw, 1, half))
             /\ Value(Pair(der)[2]) = Value(SubSeq(raw, half + 1, Len(raw)))

\* A new revision leaves what earlier ones hold intact: their octets, their
\* objects and the evidence for them.
RevisionsKept ==
    TypeOK /\ SignaturesStayValid /\ RangesReachTheirEnd /\ EvidenceKept /\ NumbersFresh

\* A reader finds every signature from its page, and from the form where the form
\* can be extended, and no other in its place.
SignaturesFound == FieldsListed /\ FieldNamesUnique

\* The parts of a written file agree with each other: value and token,
\* manifest and entry, value and the card's answer, the two exceptions of the
\* code stated where they are.
FilesAgree == TokensAttestTheSignature /\ ManifestMatches /\ EcdsaValueDecodes

=============================================================================
