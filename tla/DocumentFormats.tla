--------------------------- MODULE DocumentFormats ---------------------------
(***************************************************************************)
(* The signature formats (sign/document.rs, cades.rs, xades.rs, asic.rs):  *)
(* what is signed, what a time-stamp attests, and what the finished file   *)
(* contains.  Octet strings are terms: a tuple whose first member says how *)
(* it was made.  Only the conversion of a raw ECDSA signature, where the   *)
(* octets matter, works on octets.                                         *)
(***************************************************************************)
EXTENDS PdfUpdates

CONSTANT MAX_ZIP_ENTRIES    \* what the 16-bit entry count of a ZIP can describe

Formats == {"Cades", "CadesDetached", "Pades", "AsicECades", "AsicEXades"}

DocumentErrors == PdfErrors \cup {"NoInput", "SingleFileOnly", "SigningTimeRequired",
    "ArchiveUnsupported", "UnusableObjectName", "ContainerTooLarge",
    "MalformedEcdsaSignature"}

is_single_file(format) == format \in {"Cades", "CadesDetached", "Pades"}

\* DigestAlgorithm and SignatureAlgorithm: the digest of each algorithm.
SignatureAlgorithms == {"RsaPkcs1Sha256", "RsaPkcs1Sha384", "EcdsaSha256", "EcdsaSha384"}
digest_algorithm(alg) ==
    IF alg \in {"RsaPkcs1Sha256", "EcdsaSha256"} THEN "Sha256" ELSE "Sha384"
IsEcdsa(alg) == alg \in {"EcdsaSha256", "EcdsaSha384"}
Digest(alg, octets) == <<"digest", digest_algorithm(alg), octets>>

\* UTCTime covers 1950 to 2049; outside it the attribute is left out.
to_utc_time(time) ==
    IF time = <<>> THEN <<>>
    ELSE IF time[1] < 1950 \/ time[1] >= 2050 THEN <<>> ELSE time

\* unusable_object_name: empty, reserved, absolute, escaping or not portable
\* names, whatever their spelling.
UnusableNames == {"", "mimetype", "META-INF/manifest.xml", "/etc/passwd", "../up"}
unusable_object_name(name) == name \in UnusableNames

\* check_object_names: usable, and no name twice.
check_object_names(objects) ==
    /\ \A i \in DOMAIN objects : ~unusable_object_name(objects[i].name)
    /\ \A i, j \in DOMAIN objects : objects[i].name = objects[j].name => i = j

(***************************************************************************)
(* CAdES                                                                   *)
(***************************************************************************)

\* signed_attributes with signing_certificate_v2: content type, message
\* digest, the signing time when UTCTime can carry it, the certificate digest.
signed_attributes(p, content_digest) ==
    <<"attributes", content_digest, to_utc_time(p.time), Digest(p.alg, p.cert)>>

\* Octets: 48 SEQUENCE, 2 INTEGER.
tlv(tag, body) == <<tag, Len(body)>> \o body

\* der_integer: leading zeros dropped, a zero octet before a high bit.
der_integer(coordinate) ==
    LET nonzero == {i \in DOMAIN coordinate : coordinate[i] # 0}
        magnitude == IF nonzero = {} THEN <<0>>
                     ELSE SubSeq(coordinate, Min(nonzero), Len(coordinate))
    IN  tlv(2, IF magnitude[1] >= 128 THEN <<0>> \o magnitude ELSE magnitude)

\* ecdsa_signature_to_cms: octets that already look like a SEQUENCE of their
\* own length, in the short form or with one or two length octets, pass through;
\* a pair of equal halves becomes one; None is <<>>.
ecdsa_signature_to_cms(raw) ==
    LET tagged == Len(raw) >= 6 /\ raw[1] = 48
        whole == CASE raw[2] < 128 -> 2 + raw[2]
                   [] raw[2] = 129 -> 3 + raw[3]
                   [] raw[2] = 130 -> 4 + 256 * raw[3] + raw[4]
                   [] raw[2] \notin (0..127) \cup {129, 130} -> 0 IN
    IF tagged /\ whole = 0 THEN <<>>
    ELSE IF tagged /\ Len(raw) = whole THEN raw
    ELSE IF raw = <<>> \/ Len(raw) % 2 = 1 THEN <<>>
    ELSE tlv(48, der_integer(SubSeq(raw, 1, Len(raw) \div 2))
                 \o der_integer(SubSeq(raw, Len(raw) \div 2 + 1, Len(raw))))

\* for_cms: a signature is <<"signature", key, what was signed, octets>>; RSA
\* octets go in as they are.
for_cms(alg, signature) ==
    IF ~IsEcdsa(alg) THEN [err |-> "", der |-> signature]
    ELSE LET der == ecdsa_signature_to_cms(signature[4]) IN
         IF der = <<>> THEN [err |-> "MalformedEcdsaSignature"]
         ELSE [err |-> "", der |-> [signature EXCEPT ![4] = der]]

\* signer_info: the attributes, the signature, and one unsigned attribute per
\* distinct time-stamp token.
signer_info(p, attributes, der, timestamps) ==
    <<"signer", p.cert, p.alg, attributes, der, Range(timestamps)>>

\* signed_data: version 5 exactly when an OCSP response travels along, the
\* signer's certificate always among the certificates, the content attached or
\* not.  The cells are what the structure needs of a reserved hole.
signed_data(p, attributes, der, content, material, timestamps) ==
    <<"cms", IF material.ocsp_responses = <<>> THEN 1 ELSE 5, content,
      {p.cert} \cup Range(material.certificates),
      Range(material.crls) \cup Range(material.ocsp_responses),
      signer_info(p, attributes, der, timestamps)>>

(***************************************************************************)
(* XAdES                                                                   *)
(***************************************************************************)

\* write_signed_properties: signing time, certificate digest, a media type per
\* object.
write_signed_properties(objects, p) ==
    <<"properties", p.time, Digest(p.alg, p.cert),
      [i \in DOMAIN objects |-> <<objects[i].name, objects[i].mime>>]>>

\* write_signed_info: a reference to every object and to the properties.
write_signed_info(objects, p, properties_digest) ==
    <<"signedinfo", p.alg,
      [i \in DOMAIN objects |-> <<objects[i].name, Digest(p.alg, objects[i].content)>>],
      properties_digest>>

\* SignaturePlan of xades::plan: a signing time is required.
xades_plan(objects, p) ==
    LET properties == write_signed_properties(objects, p) IN
    IF p.time = <<>> THEN [err |-> "SigningTimeRequired"]
    ELSE [err |-> "", properties |-> properties,
          signed_info |-> write_signed_info(objects, p, Digest(p.alg, properties))]

signature_value_element(signature) == <<"SignatureValue", signature>>

\* SignaturePlan::finish: SignedInfo, SignatureValue, the certificate, the
\* properties, and the unsigned properties with tokens and material.
xades_finish(plan, p, signature, timestamps, material) ==
    <<"xades", plan.signed_info, signature_value_element(signature), p.cert,
      plan.properties, Range(timestamps), Range(material.certificates),
      Range(material.crls) \cup Range(material.ocsp_responses)>>

(***************************************************************************)
(* ASiC-E containers                                                       *)
(***************************************************************************)

MANIFEST_ENTRY == "META-INF/ASiCManifest.xml"
SIGNATURE_ENTRY == "META-INF/signature.p7s"
ARCHIVE_MANIFEST_ENTRY == "META-INF/ASiCArchiveManifest.xml"
ARCHIVE_TIMESTAMP_ENTRY == "META-INF/timestamp.tst"
MANIFEST_ENTRY_ODF == "META-INF/manifest.xml"
SIGNATURE_ENTRY_XADES == "META-INF/signatures0.xml"

\* ZipWriter: entries in the order they were added; one too many spoils the
\* archive for good, and finish gives None.
zip(entries) ==
    IF Len(entries) > MAX_ZIP_ENTRIES THEN [err |-> "ContainerTooLarge"]
    ELSE [err |-> "", file |-> <<"zip", entries>>]

MimetypeEntry == <<"mimetype", <<"text", "application/vnd.etsi.asic-e+zip">>>>
ObjectEntries(objects) == [i \in DOMAIN objects |-> <<objects[i].name, objects[i].content>>]

\* asic::plan: the manifest names the signature and digests every object.
asic_manifest(objects, p) ==
    <<"manifest", SIGNATURE_ENTRY,
      [i \in DOMAIN objects |-> <<objects[i].name, Digest(p.alg, objects[i].content)>>]>>

\* ContainerPlan::finish.
asic_finish(plan, cms) ==
    zip(<<MimetypeEntry>> \o ObjectEntries(plan.objects)
        \o <<<<MANIFEST_ENTRY, plan.manifest>>, <<SIGNATURE_ENTRY, cms>>>>)

\* ContainerPlan::archive_manifest: the objects, the manifest and the signature
\* each with a digest.
asic_archive_manifest(plan, p, signature_der) ==
    <<"manifest", ARCHIVE_TIMESTAMP_ENTRY,
      [i \in DOMAIN plan.objects |->
          <<plan.objects[i].name, Digest(p.alg, plan.objects[i].content)>>]
      \o <<<<MANIFEST_ENTRY, Digest(p.alg, plan.manifest)>>,
           <<SIGNATURE_ENTRY, Digest(p.alg, signature_der)>>>> >>

\* ContainerPlan::finish_archived.
asic_finish_archived(plan, cms, archive_manifest, token) ==
    zip(<<MimetypeEntry>> \o ObjectEntries(plan.objects)
        \o <<<<MANIFEST_ENTRY, plan.manifest>>, <<SIGNATURE_ENTRY, cms>>,
             <<ARCHIVE_MANIFEST_ENTRY, archive_manifest>>,
             <<ARCHIVE_TIMESTAMP_ENTRY, token>>>>)

\* xades_container with odf_manifest.
xades_container(objects, document) ==
    zip(<<MimetypeEntry>> \o ObjectEntries(objects)
        \o <<<<MANIFEST_ENTRY_ODF, <<"odf manifest", [i \in DOMAIN objects |->
                  <<objects[i].name, objects[i].mime>>]>>>>,
             <<SIGNATURE_ENTRY_XADES, document>>>>)

(***************************************************************************)
(* DocumentPlan                                                            *)
(***************************************************************************)

NoMaterial == [certificates |-> <<>>, ocsp_responses |-> <<>>, crls |-> <<>>]

\* The cells a CMS structure or a token needs in the hole of a PDF.
DerCells(der, tokens) == [i \in 1..(1 + Cardinality(Range(tokens))) |-> <<"der", der, i>>]

\* Placeholder::digest, over both parts of the byte range.
PdfDigest(p, ph) == Digest(p.alg, signed_octets(ph))

\* plan: refusals first, then what each format will sign.  The PDF's time goes
\* to its dictionary and not into the attributes.
plan(format, objects, p, visible) ==
    LET first == objects[1].content
        prepared == prepare_kind(objects[1].pdf, "Signature", visible)
        xades == xades_plan(objects, p)
        manifest == asic_manifest(objects, p)
        with(attributes) == [err |-> "", format |-> format, objects |-> objects,
                             attributes |-> attributes]
    IN  IF objects = <<>> THEN [err |-> "NoInput"]
        ELSE IF is_single_file(format) /\ Len(objects) > 1 THEN [err |-> "SingleFileOnly"]
        ELSE IF ~is_single_file(format) /\ ~check_object_names(objects)
        THEN [err |-> "UnusableObjectName"]
        ELSE CASE format \in {"Cades", "CadesDetached"} ->
                    with(signed_attributes(p, Digest(p.alg, first)))
               [] format = "Pades" ->
                    IF prepared.err # "" THEN [err |-> prepared.err]
                    ELSE [err |-> "", format |-> format, objects |-> objects,
                          placeholder |-> prepared.placeholder,
                          attributes |-> signed_attributes([p EXCEPT !.time = <<>>],
                                            PdfDigest(p, prepared.placeholder))]
               [] format = "AsicECades" ->
                    [err |-> "", format |-> format, objects |-> objects,
                     manifest |-> manifest,
                     attributes |-> signed_attributes(p, Digest(p.alg, manifest))]
               [] format = "AsicEXades" ->
                    IF xades.err # "" THEN [err |-> xades.err]
                    ELSE [err |-> "", format |-> format, objects |-> objects,
                          xades |-> xades]

\* DocumentPlan::to_be_signed.
to_be_signed(pl) == IF pl.format = "AsicEXades" THEN pl.xades.signed_info ELSE pl.attributes

\* Mutant: the raw signature is stamped where a CMS carries its DER form.
MutTimestampDigest(pl, p, signature) ==
    [err |-> "", value |-> IF pl.format = "AsicEXades"
                           THEN signature_value_element(signature) ELSE signature]

\* DocumentPlan::timestamp_digest: what a signature time-stamp attests.
timestamp_digest(pl, p, signature) ==
    IF pl.format = "AsicEXades"
    THEN [err |-> "", value |-> signature_value_element(signature)]
    ELSE LET cms == for_cms(p.alg, signature) IN
         IF cms.err # "" THEN [err |-> cms.err] ELSE [err |-> "", value |-> cms.der]

\* DocumentPlan::finish.
finish(pl, p, signature, timestamps, material) ==
    LET cms == for_cms(p.alg, signature)
        content == IF pl.format = "Cades" THEN pl.objects[1].content ELSE <<>>
        carried == IF pl.format = "Pades" THEN NoMaterial ELSE material
        data == signed_data(p, pl.attributes, cms.der, content, carried, timestamps)
        spliced == finish_pdf(pl.placeholder, DerCells(data, timestamps))
    IN  IF pl.format = "AsicEXades"
        THEN xades_container(pl.objects,
                xades_finish(pl.xades, p, signature, timestamps, material))
        ELSE IF cms.err # "" THEN [err |-> cms.err]
        ELSE CASE pl.format \in {"Cades", "CadesDetached"} -> [err |-> "", file |-> data]
               [] pl.format = "Pades" ->
                    IF spliced.err # "" THEN [err |-> spliced.err]
                    ELSE append_validation_store(spliced.pdf, material)
               [] pl.format = "AsicECades" -> asic_finish(pl, data)

\* DocumentPlan::archive_manifest: only a CAdES container has one.  It is built
\* from the signature in the form CMS carries.
archive_manifest(pl, p, signature) ==
    asic_archive_manifest(pl, p, for_cms(p.alg, signature).der)

\* DocumentPlan::finish_archived.
finish_archived(pl, p, signature, timestamps, material, manifest, token) ==
    LET cms == for_cms(p.alg, signature) IN
    IF pl.format # "AsicECades" THEN [err |-> "ArchiveUnsupported"]
    ELSE IF cms.err # "" THEN [err |-> cms.err]
    ELSE asic_finish_archived(pl,
            signed_data(p, pl.attributes, cms.der, <<>>, material, timestamps),
            manifest, token)

=============================================================================
