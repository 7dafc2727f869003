---------------------------- MODULE MCPortfolios ----------------------------
EXTENDS Portfolios, TLC

\* Version 2 is a patch of 1 that adds a parameter with a default; version 3
\* is a new minor version that changes the type of another.
MCVersions == 0..3
MCLine     == 0 :> 0 @@ 1 :> 1 @@ 2 :> 1 @@ 3 :> 2
MCDeclares == 0 :> ("x" :> "int") @@ 1 :> ("x" :> "int")
              @@ 2 :> ("x" :> "int" @@ "y" :> "int")
              @@ 3 :> ("x" :> "string" @@ "y" :> "int")
MCDefaults == 0 :> <<>> @@ 1 :> ("x" :> 1) @@ 2 :> ("x" :> 1 @@ "y" :> 1)
              @@ 3 :> ("y" :> 1)
MCPresets  == 0 :> <<>> @@ 1 :> ("p" :> ("x" :> 1))
              @@ 2 :> ("p" :> ("x" :> 1 @@ "y" :> 1)
                       @@ "q" :> ("x" :> 2 @@ "y" :> 1))
              @@ 3 :> ("p" :> ("x" :> 1 @@ "y" :> 1))
MCBodies   == {"x" :> 2, "x" :> 2 @@ "y" :> 2}
Perms      == Permutations(Clients)
=============================================================================
