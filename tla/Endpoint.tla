------------------------------ MODULE Endpoint ------------------------------
(***************************************************************************)
(* Where a run is published to: PublishConfigBuilder and the rules for    *)
(* URLs (lmn-core/src/publish/config.rs).                                 *)
(*                                                                         *)
(* A URL is what url::Url::parse makes of the trimmed text:               *)
(*   form    "blank", "malformed" or "url"                                *)
(*   scheme  "https", "http" or "other"                                   *)
(*   host    "loopback" (localhost, 127.0.0.1, ::1) or "remote"           *)
(*   extra   a subset of {"query", "fragment", "userinfo"}                *)
(*   slashes number of slashes it ends in; at least one without a path    *)
(***************************************************************************)
EXTENDS Naturals

CONSTANT None

Url == [form : {"blank", "malformed", "url"}, scheme : {"https", "http", "other"},
        host : {"loopback", "remote"}, extra : SUBSET {"query", "fragment", "userinfo"},
        slashes : Nat]

DefaultUrl ==
    [form |-> "url", scheme |-> "https", host |-> "remote", extra |-> {}, slashes |-> 0]

\* Mutant of SecureEnough: plain HTTP to any host.
AnyHttp(url) == url.scheme \in {"https", "http"}

SecureEnough(url) ==
    \/ url.scheme = "https"
    \/ url.scheme = "http" /\ url.host = "loopback"

\* normalize_and_validate_url: what it accepts, and what it makes of it.
ValidUrl(url) == url.form = "url" /\ SecureEnough(url) /\ url.extra = {}

Normalized(url) == [url EXCEPT !.slashes = IF @ > 0 THEN @ - 1 ELSE 0]

\* The section handed over by the adapter: [enabled, url], or None.
Enabled(section) == section # None /\ section.enabled = TRUE

Target(section) == IF section.url = None THEN DefaultUrl ELSE section.url
=============================================================================
