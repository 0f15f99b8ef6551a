------------------------------ MODULE MCSession ------------------------------
(* A session of four models on two ladders.  Two are a CLI's, one of them an *)
(* alias, and have no step but "off".                                       *)
EXTENDS Session

CONSTANTS x, y, b1, b2

MCModels   == {"local", "cloud", "opus", "opus-5"}
MCDefault  == [m \in MCModels |-> IF m = "cloud" THEN "high" ELSE "off"]
MCClamp    == [m \in MCModels |-> [l \in {"off", "high"} |-> IF m \in {"local", "cloud"} THEN l ELSE "off"]]
MCHome     == [model |-> "local", level |-> "high"]
MCFullName == [a \in {"opus"} |-> "opus-5"]
MCChain    == [c \in {"balanced", "strong"} |->
                 IF c = "strong" THEN <<"cloud", "local">> ELSE <<"local">>]
MCTexts    == {x, y}
MCBranches == {b1, b2}
Symmetric  == {f @@ g : f \in Permutations(MCTexts), g \in Permutations(MCBranches)}

==============================================================================
