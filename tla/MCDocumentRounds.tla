-------------------------- MODULE MCDocumentRounds --------------------------
(* Up to three signatures, archive time-stamps included, on every small PDF  *)
(* shape, and every other format once.                                       *)
EXTENDS DocumentRounds

MCForms == {"none", "ref none", "ref direct", "ref ref",
            "direct none", "direct direct", "direct ref"}
MCFlaws == {"not a pdf", "no startxref", "cycle", "filter", "encrypted", "no root",
            "form free", "field twice", "deep", "no kids"}
\* Leading zeros, high bits and an odd length; then pairs whose r opens as a
\* SEQUENCE: of another length, of their own (short and long form), of no length.
MCRaw == {<<0, 0, 4, 128, 0, 1>>, <<128, 48, 0, 0, 0, 0>>, <<1, 2, 3>>,
          <<48, 129, 9, 1, 1, 1>>, <<48, 4, 7, 7, 7, 7>>, <<48, 129, 3, 7, 7, 7>>,
          <<48, 130, 0, 2, 7, 7>>, <<48, 200, 1, 1, 1, 1>>}
=============================================================================
