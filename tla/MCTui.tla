-------------------------------- MODULE MCTui --------------------------------
(* A root with a directory, an image and a text; the directory holds one   *)
(* of the same names.  Two driver types, of one and of two fields.         *)
EXTENDS Tui, TLC

File(name, kind) == [name |-> name, kind |-> kind]

TwoDrivers == <<1, 2>>

(* What is left of a listing when some of its entries have gone.           *)
Parts(listing) ==
    {SelectSeq(listing, LAMBDA e : e \in some) :
         some \in SUBSET {listing[i] : i \in DOMAIN listing}}

TwoDirs ==
    (<<>> :> Parts(<<File("d", "dir"), File("i", "image"), File("t", "text")>>))
        @@ (<<"d">> :> Parts(<<File("i", "image")>>))
==============================================================================
