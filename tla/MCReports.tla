----------------------------- MODULE MCReports -------------------------------
(* Small instances of Reports: a chart with an account of every kind the   *)
(* reports tell apart, in two months.                                      *)
EXTENDS Reports, TLC

Acct(t, g) == [type |-> t, group |-> g]

MCChart == "1110" :> Acct("asset", "cash") @@ "1200" :> Acct("asset", "receivable")
        @@ "2100" :> Acct("liability", "payable") @@ "3100" :> Acct("equity", "capital")
        @@ "4100" :> Acct("income", "salary") @@ "5100" :> Acct("expense", "cogs")
        @@ "5900" :> Acct("expense", "other")

MCManual == {<<"1200", "3100", 1>>}
=============================================================================
