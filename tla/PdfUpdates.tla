----------------------------- MODULE PdfUpdates -----------------------------
(***************************************************************************)
(* Signatures in PDF files (sign/pades.rs, sign/pades/xref_stream.rs).     *)
(* A file is what the reader can tell apart: the octets, as a sequence of  *)
(* cells, and the chain of cross-reference sections, each with the objects *)
(* of its revision.  Every writer appends one revision: prepare reserves a *)
(* hole for a signature or a document timestamp, finish splices the DER    *)
(* into it, append_validation_store adds the long-term material.           *)
(*                                                                         *)
(* Object bodies are records; a list of references is direct, held in an   *)
(* array object of its own, or absent.  An operation that fails returns a  *)
(* result whose field err names the PdfError.                              *)
(***************************************************************************)
EXTENDS Naturals, Sequences, FiniteSets, SequencesExt

CONSTANTS
    MAX_XREF_DEPTH,          \* cross-reference sections followed (64)
    MAX_FORM_FIELD_OBJECTS,  \* form fields visited (4096)
    MAX_FORM_FIELD_DEPTH,    \* nesting of form fields (64)
    MAX_DEPTH,               \* nesting of page tree nodes (32)
    Capacity                 \* DEFAULT_SIGNATURE_CAPACITY, in cells

PdfErrors == {"NotAPdf", "MissingStartXref", "MissingTrailer",
    "MissingCatalogReference", "MissingObject", "UnsupportedEncryption",
    "UnsupportedCrossReferenceStream", "MissingPageTree", "UnreadableForm",
    "UnreadableValidationStore", "SignatureTooLarge"}

Absent == [form |-> "none", refs |-> <<>>, num |-> 0]
Inline(refs) == [form |-> "direct", refs |-> refs, num |-> 0]
Indirect(n) == [form |-> "ref", refs |-> <<>>, num |-> n]
Missing == [kind |-> "missing"]

\* The component of a field name that is not ASCII: such a name is None.
NonAscii == <<"?", 0, 0>>

\* Union of two functions, the left one first.
Over(f, g) == [x \in DOMAIN f \cup DOMAIN g |-> IF x \in DOMAIN f THEN f[x] ELSE g[x]]

(***************************************************************************)
(* Reading: PdfIndex                                                       *)
(***************************************************************************)

\* An entry of a cross-reference section: a live object, a free number, or an
\* object kept inside the object stream "container".
Direct(body) == [location |-> "Direct", body |-> body, container |-> 0]

\* entry_from_row: a row of a cross-reference stream; a missing type field (3)
\* means a live object, a type the reader does not know a free one.
entry_from_row(type, body, container) ==
    [location |-> CASE type \in {1, 3} -> "Direct" [] type = 2 -> "Compressed"
                    [] type = 0 -> "Free",
     body |-> IF type = 0 THEN Missing ELSE body, container |-> container]

\* One section as parse_xref_section returns it, a hybrid section's stream
\* entries going before the table's.
Section(pdf, at) ==
    LET rev == pdf.revs[at] IN
    [entries |-> Over(rev.hybrid, rev.entries), trailer |-> rev.trailer,
     stream |-> rev.stream]

\* A cross-reference or object stream decodes unless its filter or predictor
\* is one the reader does not know.
StreamDecodes(rev) == rev.stream => rev.filter \in {"none", "FlateDecode"}

\* Follow /Prev from the newest section, at most depth sections and never one
\* twice; the newest entry of an object number wins.
IndexTo(pdf, depth) ==
    LET walk[k \in 0..depth] ==
            IF k = 0 THEN [next |-> pdf.start, seen |-> {}, err |-> "",
                           objects |-> [n \in {} |-> Missing]]
            ELSE LET w == walk[k - 1] IN
                 IF w.err # "" \/ w.next = 0 THEN w
                 ELSE IF w.next \in w.seen \/ w.next > Len(pdf.revs)
                 THEN [w EXCEPT !.err = "MissingTrailer"]
                 ELSE IF ~StreamDecodes(pdf.revs[w.next])
                 THEN [w EXCEPT !.err = "UnsupportedCrossReferenceStream"]
                 ELSE LET s == Section(pdf, w.next) IN
                      [next |-> s.trailer.prev, seen |-> w.seen \cup {w.next},
                       err |-> "", objects |-> Over(w.objects, s.entries)]
        last == walk[depth]
    IN  IF pdf.start = 0 THEN [err |-> "MissingStartXref"]
        ELSE IF last.err # "" THEN [err |-> last.err]
        ELSE [err |-> "", objects |-> last.objects, start |-> pdf.start,
              trailer |-> pdf.revs[pdf.start].trailer,
              stream |-> pdf.revs[pdf.start].stream]

\* PdfIndex::parse: older sections than MAX_XREF_DEPTH are not read.
PdfIndex(pdf) == IndexTo(pdf, MAX_XREF_DEPTH)

\* compressed_body: an object inside an object stream needs a live container.
compressed_body(index, e) ==
    IF /\ e.container \in DOMAIN index.objects
       /\ index.objects[e.container].location = "Direct"
    THEN e.body ELSE Missing

\* object_body_reference.
object_body(index, n) ==
    IF n \notin DOMAIN index.objects THEN Missing
    ELSE LET e == index.objects[n] IN
         CASE e.location = "Direct" -> e.body
           [] e.location = "Free" -> Missing
           [] e.location = "Compressed" -> compressed_body(index, e)

\* validation_references: the references of a list, direct or in an array.
validation_references(index, list) ==
    CASE list.form = "direct" -> [err |-> "", refs |-> list.refs]
      [] list.form = "none" -> [err |-> "", refs |-> <<>>]
      [] list.form = "ref" ->
            LET body == object_body(index, list.num) IN
            IF body.kind = "array" THEN [err |-> "", refs |-> body.refs]
            ELSE [err |-> "MissingObject", refs |-> <<>>]

\* PdfDictionary::parse and entry: a dictionary nested too deeply, unbalanced,
\* or with a key twice is not read.
ReadableDictionary(body) == body.shape = "plain"

\* first_page_number and last_page_number: down the page tree by the first or
\* the last of /Kids, at most MAX_DEPTH nodes.
page_number(index, catalog, last) ==
    LET down[k \in 0..MAX_DEPTH] ==
            IF k = 0 THEN [at |-> catalog.pages, done |-> FALSE, err |-> ""]
            ELSE LET d == down[k - 1]
                     node == object_body(index, d.at) IN
                 IF d.done \/ d.err # "" THEN d
                 ELSE IF node = Missing THEN [d EXCEPT !.err = "MissingObject"]
                 ELSE IF node.kind = "page" THEN [d EXCEPT !.done = TRUE]
                 ELSE IF node.kids = <<>> THEN [d EXCEPT !.err = "MissingPageTree"]
                 ELSE [d EXCEPT !.at = IF last THEN Last(node.kids) ELSE Head(node.kids)]
        end == down[MAX_DEPTH]
    IN  IF end.err # "" THEN [err |-> end.err, at |-> 0]
        ELSE IF ~end.done THEN [err |-> "MissingPageTree", at |-> 0]
        ELSE [err |-> "", at |-> end.at]

\* The list of root fields: the /AcroForm of the catalog, inline or by
\* reference, and its /Fields.
RootFields(index, catalog) ==
    LET acro == IF catalog.acro.form = "ref" THEN object_body(index, catalog.acro.num)
                ELSE catalog.acro.dict
    IN  IF catalog.acro.form = "none" THEN [err |-> "", refs |-> <<>>]
        ELSE IF acro = Missing THEN [err |-> "UnreadableForm", refs |-> <<>>]
        ELSE validation_references(index, acro.fields)

\* ascii_field_name and qualified_field_name: a name with a component that is
\* not ASCII has no text to compare.
IsNone(name) == NonAscii \in Range(name)

\* existing_field_names: every fully qualified ASCII name of the form, walking
\* /Kids with a stack; a field met twice, too deep or one too many is refused.
existing_field_names(index, catalog) ==
    LET roots == RootFields(index, catalog)
        step(w) ==
            LET top == Last(w.pending)
                field == object_body(index, top.ref)
                name == IF field.t = <<>> THEN top.name ELSE top.name \o field.t
                kids == validation_references(index, field.kids)
                rest == Front(w.pending) IN
            IF \/ top.depth > MAX_FORM_FIELD_DEPTH
               \/ Cardinality(w.visited) >= MAX_FORM_FIELD_OBJECTS
               \/ top.ref \in w.visited
               \/ field.kind # "field"
            THEN [w EXCEPT !.err = "UnreadableForm"]
            ELSE IF \/ kids.err # ""
                    \/ Len(rest) + Len(kids.refs) > MAX_FORM_FIELD_OBJECTS
            THEN [w EXCEPT !.err = "UnreadableForm"]
            ELSE [err |-> "", visited |-> w.visited \cup {top.ref},
                  names |-> IF IsNone(name) \/ name = <<>> THEN w.names
                            ELSE w.names \cup {name},
                  pending |-> rest \o [i \in DOMAIN kids.refs |->
                      [ref |-> Reverse(kids.refs)[i], name |-> name,
                       depth |-> top.depth + 1]]]
        walk[k \in 0..MAX_FORM_FIELD_OBJECTS + 1] ==
            IF k = 0 THEN [err |-> "", visited |-> {}, names |-> {},
                           pending |-> [i \in DOMAIN roots.refs |->
                               [ref |-> Reverse(roots.refs)[i], name |-> <<>>, depth |-> 1]]]
            ELSE IF walk[k - 1].err # "" \/ walk[k - 1].pending = <<>> THEN walk[k - 1]
            ELSE step(walk[k - 1])
        end == walk[MAX_FORM_FIELD_OBJECTS + 1]
    IN  IF ~ReadableDictionary(catalog) \/ roots.err # "" \/ end.err # ""
           \/ Len(roots.refs) > MAX_FORM_FIELD_OBJECTS
        THEN [err |-> "UnreadableForm", names |-> {}]
        ELSE [err |-> "", names |-> end.names]

(***************************************************************************)
(* Writing: prepare_kind                                                   *)
(***************************************************************************)

\* Mutant: the first candidate is taken whatever the form already has.
MutUniqueFieldName(used, base) == base

\* unique_field_name: the base name, or the base with the first free suffix.
unique_field_name(used, base) ==
    IF <<base>> \notin used THEN base
    ELSE LET free == {k \in 2..Cardinality(used) + 2 :
                        <<<<base[1], base[2], k>>>> \notin used}
         IN  <<base[1], base[2], CHOOSE k \in free : \A j \in free : k <= j>>

\* Reserved::field_name_base and dictionary_head.
field_name_base(kind, n) ==
    <<IF kind = "Signature" THEN "Signature" ELSE "Timestamp", n, 0>>

\* signature_field_objects: the widget, and for a visible signature its
\* appearance stream and font.
signature_field_objects(fieldNo, sigNo, pageNo, name, visible) ==
    LET field == [kind |-> "field", t |-> <<name>>, kids |-> Absent,
                  v |-> sigNo, page |-> pageNo] IN
    [n \in fieldNo..(fieldNo + (IF visible THEN 2 ELSE 0)) |->
        Direct(CASE n = fieldNo -> field
                 [] n = fieldNo + 1 -> [kind |-> "xobject"]
                 [] n = fieldNo + 2 -> [kind |-> "font"])]

\* append_to_array on the list that follows the key.
append_to_array(list, n) ==
    IF list.form = "direct" THEN [list EXCEPT !.refs = Append(@, n)] ELSE list

\* plan_annotation and the edit it asks for: the widget joins the page's
\* /Annots, in the page or in the array object the page names.
plan_annotation(index, pageNo, n) ==
    LET page == object_body(index, pageNo)
        array == object_body(index, page.annots.num) IN
    CASE page.annots.form = "none" ->
            [err |-> "", at |-> pageNo, body |-> [page EXCEPT !.annots = Inline(<<n>>)]]
      [] page.annots.form = "direct" ->
            [err |-> "", at |-> pageNo,
             body |-> [page EXCEPT !.annots = append_to_array(@, n)]]
      [] page.annots.form = "ref" ->
            IF array = Missing THEN [err |-> "MissingObject"]
            ELSE [err |-> "", at |-> page.annots.num,
                  body |-> [array EXCEPT !.refs = Append(@, n)]]

\* plan_field_list: an /AcroForm held by reference is edited there or in its
\* /Fields array; one held inline is edited in the catalog, where the text
\* after /Fields is searched for an array: a /Fields held by reference sends
\* the entry to the next array of the catalog, if there is one, and a form
\* without /Fields is left as it is.
plan_field_list(index, root, catalog, n) ==
    LET acro == catalog.acro
        form == object_body(index, acro.num)
        inline == acro.dict.fields
        inCatalog(body) == [at |-> root, body |-> body] IN
    CASE acro.form = "ref" ->
            IF form.fields.form = "ref"
            THEN LET array == object_body(index, form.fields.num) IN
                 [at |-> form.fields.num, body |-> [array EXCEPT !.refs = Append(@, n)]]
            ELSE [at |-> acro.num,
                  body |-> [form EXCEPT !.fields = IF @.form = "direct"
                                THEN append_to_array(@, n) ELSE Inline(<<n>>)]]
      [] acro.form = "none" ->
            inCatalog([catalog EXCEPT !.acro = [form |-> "direct", num |-> 0,
                         dict |-> [kind |-> "acroform", fields |-> Inline(<<n>>)]]])
      [] acro.form = "direct" ->
            inCatalog(CASE inline.form = "direct" ->
                            [catalog EXCEPT !.acro.dict.fields = append_to_array(@, n)]
                        [] inline.form = "ref" ->
                            [catalog EXCEPT !.other = append_to_array(@, n)]
                        [] inline.form = "none" -> catalog)

\* push_stream_close: the closing stream is an object and takes the number size.
push_stream_close(entries, size) ==
    Over(entries, [n \in {size} |-> Direct([kind |-> "xref"])])

\* push_xref_and_trailer: the new section points at the
\* previous one and carries /Root, /ID and /Info; a document whose newest
\* section is a stream is closed with a stream, itself an object.
push_xref_and_trailer(pdf, index, entries, size) ==
    [entries |-> IF index.stream
                 THEN push_stream_close(entries, size) ELSE entries,
     hybrid |-> [n \in {} |-> Missing],
     stream |-> index.stream, filter |-> "none",
     trailer |-> [index.trailer EXCEPT
         !.size = IF index.stream THEN size + 1 ELSE size, !.prev = pdf.start]]

AppendRevision(pdf, section, cells) ==
    [cells |-> pdf.cells \o cells, revs |-> Append(pdf.revs, section),
     start |-> Len(pdf.revs) + 1, header |-> TRUE]

\* finish_placeholder: the two ranges around the hole of capacity cells.
finish_placeholder(pdf, before, capacity) ==
    [document |-> pdf, contents_open |-> before, capacity |-> capacity,
     byte_range |-> <<0, before, before + capacity, Len(pdf.cells) - (before + capacity)>>]

\* prepare_kind: refuse what cannot be extended, then append one revision with
\* the signature dictionary, its field, the page's and the form's new bodies.
prepare_kind(pdf, kind, visible) ==
    LET index == PdfIndex(pdf)
        catalog == object_body(index, index.trailer.root)
        sigNo == Max({index.trailer.size, 1})
        fieldNo == sigNo + 1
        shown == visible /\ kind = "Signature"
        names == existing_field_names(index, catalog)
        page == page_number(index, catalog, shown)
        name == unique_field_name(names.names, field_name_base(kind, sigNo))
        annots == plan_annotation(index, page.at, fieldNo)
        list == plan_field_list(index, index.trailer.root, catalog, fieldNo)
        edited == [n \in {annots.at, list.at} |->
                      Direct(IF n = list.at THEN list.body ELSE annots.body)]
        sig == [n \in {sigNo} |-> Direct([kind |-> "sig", type |-> kind])]
        section == push_xref_and_trailer(pdf, index,
                      Over(sig, Over(signature_field_objects(fieldNo, sigNo, page.at, name, shown),
                                     edited)),
                      fieldNo + (IF shown THEN 3 ELSE 1))
        r == Len(pdf.revs) + 1
        out == AppendRevision(pdf, section,
                  <<<<"head", r>>>> \o [i \in 1..Capacity |-> <<"0", r>>] \o <<<<"tail", r>>>>)
    IN  IF ~pdf.header THEN [err |-> "NotAPdf"]
        ELSE IF index.err # "" THEN [err |-> index.err]
        ELSE IF index.trailer.encrypt THEN [err |-> "UnsupportedEncryption"]
        ELSE IF index.trailer.root = 0 THEN [err |-> "MissingCatalogReference"]
        ELSE IF catalog = Missing THEN [err |-> "MissingObject"]
        ELSE IF names.err # "" THEN [err |-> names.err]
        ELSE IF page.err # "" THEN [err |-> page.err]
        ELSE IF annots.err # "" THEN [err |-> annots.err]
        ELSE [err |-> "",
              placeholder |-> finish_placeholder(out, Len(pdf.cells) + 1, Capacity)]

\* Placeholder::signed_octets.
signed_octets(ph) ==
    LET r == ph.byte_range IN
    SubSeq(ph.document.cells, r[1] + 1, r[1] + r[2])
        \o SubSeq(ph.document.cells, r[3] + 1, r[3] + r[4])

\* Placeholder::finish: the DER goes into the hole or is refused.
finish_pdf(ph, der) ==
    IF Len(der) > ph.capacity THEN [err |-> "SignatureTooLarge"]
    ELSE [err |-> "",
          pdf |-> [ph.document EXCEPT !.cells =
              [i \in DOMAIN @ |-> IF i - ph.contents_open \in DOMAIN der
                                  THEN der[i - ph.contents_open] ELSE @[i]]]]

(***************************************************************************)
(* The validation store                                                    *)
(***************************************************************************)

StoreKeys == {"Certs", "OCSPs", "CRLs"}

\* Each element where it comes first.
Distinct(s) ==
    LET kept[i \in 0..Len(s)] == IF i = 0 THEN <<>>
                                 ELSE IF s[i] \in Range(kept[i - 1]) THEN kept[i - 1] ELSE Append(kept[i - 1], s[i]) IN
    kept[Len(s)]

\* Mutant: the lists an existing store has are replaced by the new ones.
MutMergeValidationStore(index, store, numbers) ==
    [err |-> "", body |-> [kind |-> "dss", shape |-> "plain",
        lists |-> [k \in StoreKeys |-> IF numbers[k] = <<>> THEN store.lists[k]
                                       ELSE Inline(numbers[k])]]]

\* merge_validation_store: each list is read, extended, made unique in order
\* and written back inline; a list neither present nor needed is not written.
merge_validation_store(index, store, numbers) ==
    LET old(k) == validation_references(index, store.lists[k])
        keep(k) == store.lists[k].form = "none" /\ numbers[k] = <<>>
        merged(k) == Distinct(old(k).refs \o numbers[k])
    IN  IF ~ReadableDictionary(store) \/ \E k \in StoreKeys : old(k).err # ""
        THEN [err |-> "UnreadableValidationStore"]
        ELSE [err |-> "", body |-> [kind |-> "dss", shape |-> "plain",
                lists |-> [k \in StoreKeys |-> IF keep(k) THEN Absent ELSE Inline(merged(k))]]]

\* validation_store_plan: no store, one in an object of its own, or one inline
\* in the catalog, which moves to a new object.
validation_store_plan(index, catalog, root, next, numbers) ==
    LET dss == catalog.dss
        fresh == [kind |-> "dss", shape |-> "plain",
                  lists |-> [k \in StoreKeys |-> IF numbers[k] = <<>> THEN Absent
                                                 ELSE Inline(numbers[k])]]
        linked == [catalog EXCEPT !.dss = [form |-> "ref", num |-> next, dict |-> @.dict]]
        named == object_body(index, dss.num)
        merged == merge_validation_store(index,
                     IF dss.form = "ref" THEN named ELSE dss.dict, numbers) IN
    CASE ~ReadableDictionary(catalog) -> [err |-> "UnreadableValidationStore"]
      [] ReadableDictionary(catalog) /\ dss.form = "none" ->
            [err |-> "", next |-> next + 1,
             objects |-> [n \in {next, root} |-> Direct(IF n = next THEN fresh ELSE linked)]]
      [] ReadableDictionary(catalog) /\ dss.form = "ref" ->
            IF named = Missing THEN [err |-> "MissingObject"]
            ELSE IF merged.err # "" THEN [err |-> merged.err]
            ELSE [err |-> "", next |-> next,
                  objects |-> [n \in {dss.num} |-> Direct(merged.body)]]
      [] ReadableDictionary(catalog) /\ dss.form = "direct" ->
            IF merged.err # "" THEN [err |-> merged.err]
            ELSE [err |-> "", next |-> next + 1,
                  objects |-> [n \in {next, root} |->
                                 Direct(IF n = next THEN merged.body ELSE linked)]]

\* emit_validation_blobs: one new stream object per distinct blob.
emit_validation_blobs(blobs, next) ==
    LET unique == Distinct(blobs) IN
    [numbers |-> [i \in DOMAIN unique |-> next + i - 1],
     objects |-> [n \in next..(next + Len(unique) - 1) |->
                    Direct([kind |-> "blob", data |-> unique[n - next + 1]])]]

\* append_validation_store: nothing to add leaves the file alone; otherwise one
\* more revision, after the signature, with the blobs and the store.
append_validation_store(pdf, material) ==
    LET index == PdfIndex(pdf)
        root == index.trailer.root
        catalog == object_body(index, root)
        next == Max({index.trailer.size, 1})
        certs == emit_validation_blobs(material.certificates, next)
        ocsps == emit_validation_blobs(material.ocsp_responses, next + Len(certs.numbers))
        crls == emit_validation_blobs(material.crls,
                   next + Len(certs.numbers) + Len(ocsps.numbers))
        plan == validation_store_plan(index, catalog, root,
                   next + Len(certs.numbers) + Len(ocsps.numbers) + Len(crls.numbers),
                   [k \in StoreKeys |-> CASE k = "Certs" -> certs.numbers
                                          [] k = "OCSPs" -> ocsps.numbers
                                          [] k = "CRLs" -> crls.numbers])
        objects == Over(certs.objects, Over(ocsps.objects, Over(crls.objects, plan.objects)))
    IN  IF \A k \in DOMAIN material : material[k] = <<>> THEN [err |-> "", pdf |-> pdf]
        ELSE IF index.err # "" THEN [err |-> index.err]
        ELSE IF root = 0 THEN [err |-> "MissingCatalogReference"]
        ELSE IF catalog = Missing THEN [err |-> "MissingObject"]
        ELSE IF plan.err # "" THEN [err |-> plan.err]
        ELSE [err |-> "", pdf |-> AppendRevision(pdf,
                push_xref_and_trailer(pdf, index, objects, plan.next),
                <<<<"store", Len(pdf.revs) + 1>>>>)]

=============================================================================
