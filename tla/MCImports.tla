---------------------------- MODULE MCImports --------------------------------
(* Small instances of Imports: two merchants of whom one's name is in the  *)
(* other's, outflows of both, an inflow and a row that cannot be read.     *)
EXTENDS Imports, TLC

MCMerchant == "out1" :> "corner" @@ "out2" :> "corner" @@ "out3" :> "corner cafe"
           @@ "in" :> "corner" @@ "bad" :> "corner"
MCFlow == [r \in DOMAIN MCMerchant |-> IF r \in {"in", "bad"} THEN r ELSE "out"]
MCAlike == [m \in {"corner", "corner cafe"} |-> {"corner", "corner cafe"}]
MCKeyword == "corner" :> "5900" @@ "corner cafe" :> "5200"
MCFiles == {<<"out1", "out1">>, <<"out2", "bad">>, <<"out3", "in">>}

Symmetry == Permutations(Clients)
=============================================================================
