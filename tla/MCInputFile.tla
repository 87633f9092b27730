---------------------------- MODULE MCInputFile ----------------------------
(***************************************************************************)
(* Texts of up to three bytes under a limit of two, in JSON and YAML,     *)
(* with an entry that is written twice.                                    *)
(***************************************************************************)
EXTENDS InputFile

CONSTANTS k1, k2, x, y

MCItems == {Entry(k1, y), Entry(k2, x), Mark("end"), Mark("unhashable")}

MCVersions ==
    { << Entry(k1, x) >>,
      << Entry(k1, y), Entry(k2, y) >>,
      << Entry(k1, x), Mark("end") >>,
      << Mark("deep") >>,
      << Entry(k1, y), Entry(k2, x), Mark("malformed") >> }

MCConforms(mapping) == k1 \in DOMAIN mapping
=============================================================================
