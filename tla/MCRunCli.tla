------------------------------ MODULE MCRunCli ------------------------------
(* RunCli with two rules, error_rate <= 1/2 and throughput_rps > 1, and    *)
(* with a URL for each way to be accepted or refused.                      *)
EXTENDS RunCli

MCRules ==
    {[metric |-> "error_rate", operator |-> "lte", value |-> <<1, 2>>],
     [metric |-> "throughput_rps", operator |-> "gt", value |-> <<1, 1>>]}

MCUrls ==
    {[DefaultUrl EXCEPT !.form = "malformed"],
     [DefaultUrl EXCEPT !.scheme = "http"],
     [DefaultUrl EXCEPT !.scheme = "http", !.host = "loopback", !.slashes = 2],
     [DefaultUrl EXCEPT !.extra = {"query"}]}
=============================================================================
