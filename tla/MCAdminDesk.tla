---------------------------- MODULE MCAdminDesk ----------------------------
(* Instances of AdminDesk. desk.cfg: two desks on the same articles, one that *)
(* edits and one that publishes and deletes; the name of one tag contains the *)
(* other's. The desk_*.cfg runs: what the case named needs.                   *)
EXTENDS AdminDesk, TLC

Overlapping == {"news", "newsflash"}
Contained == {<<n, n>> : n \in Overlapping} \cup {<<"news", "newsflash">>}
TheLonger == {"newsflash"}
Apart == {"anime", "news"}
SameOnly == {<<n, n>> : n \in Apart}
Published == {"published"}
PublishAndDelete == {"publish", "delete"}
Deletion == {"delete"}
NoButton == {}
DeskSymmetry == Permutations(Desks)
=============================================================================
