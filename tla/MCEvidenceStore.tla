--------------------------- MODULE MCEvidenceStore ---------------------------
(* Instances of EvidenceStore for TLC.                                     *)
EXTENDS EvidenceStore

\* Two snippets of one page, under several spellings of its url.
Hit(form, n) == [url |-> [page |-> "p", form |-> form], text |-> n]
MCHits ==
    [j \in Jobs |-> IF j = CHOOSE k \in Jobs : TRUE
                    THEN << Hit("fragment", 2), Hit("plain", 3) >>
                    ELSE << Hit("blank", 1), Hit("default_port", 3), Hit("ftp", 1) >>]
MCTexts == {3, 4, 7, 8}
MCDistance ==
    [d \in {WebDocument(Hit("plain", n)) : n \in 1 .. 3} \cup
           {CorpusDocument(key, n) : key \in CorpusKeys, n \in CorpusTexts} |->
        IF d.kind = "web_search" THEN d.text - 4 ELSE d.text]
Symmetry == Permutations(Workers)
=============================================================================
