------------------------------- MODULE MCCli --------------------------------
(* Instances of Cli for model checking: options of every type and of both    *)
(* spellings, a number in the range of --max-hop and one out of it.          *)
EXTENDS Cli

TenWords ==
  {"--trace", "--mt", "--help", "--max-hop", "--output", "--rp", "--typo", "host", "8", "300"}

TwoNumbers == ("8" :> 8) @@ ("300" :> 300)
OneTypo == {"--typo"}
=============================================================================
