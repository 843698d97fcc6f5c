--------------------------- MODULE ConnectionPlan ---------------------------
(***************************************************************************)
(* What poqi makes of a connection string before it dials: crates/db,      *)
(* tls.rs and prepare_connection of database.rs.  A string is abstracted   *)
(* to how it is written (a URL, a URL the url crate cannot parse because   *)
(* it lists several hosts, or keyword=value pairs), whether the rest of it *)
(* parses, its sslmode and the files it names.                             *)
(***************************************************************************)
EXTENDS TLC

CONSTANT NativeRoots      \* does the system have a certificate it trusts

ASSUME NativeRootsAssumption == NativeRoots \in BOOLEAN

SslModes == {"unset", "", "require", "verify-full", "prefer", "disable", "allow"}
Files    == {"none", "good", "bad"}
ConnectionString ==
    [form: {"url", "hosts", "keywords"}, parses: BOOLEAN, sslmode: SslModes,
     root: Files, cert: Files, key: Files]

Invalid == [mode |-> "invalid", tls |-> "none"]
NoFiles == [root |-> "none", cert |-> "none", key |-> "none"]

(***************************************************************************)
(* ParsedTlsParameters::take: poqi reads the TLS parameters itself, and    *)
(* requires TLS when the string says nothing.                              *)
(***************************************************************************)
TakenMode(u) ==
    CASE u.sslmode \in {"unset", "", "require", "verify-full"} -> "require"
      [] u.sslmode \in {"prefer", "disable"} -> u.sslmode
      [] OTHER -> "invalid"

(***************************************************************************)
(* strip_tls_params: keyword=value pairs are no URL and keep their TLS     *)
(* parameters.                                                             *)
(***************************************************************************)
Stripped(u) ==
    IF u.form = "keywords"
    THEN [files |-> NoFiles, mode |-> "unknown"]
    ELSE [files |-> [root |-> u.root, cert |-> u.cert, key |-> u.key], mode |-> TakenMode(u)]

(***************************************************************************)
(* strip_postgres_url_tls_params: what is left must not depend on whether  *)
(* the url crate could parse the string.                                   *)
(***************************************************************************)
Retained(u) == [u EXCEPT !.sslmode = "unset", !.root = "none", !.cert = "none", !.key = "none"]

(***************************************************************************)
(* Config::from_str of tokio_postgres: it knows no certificate parameters  *)
(* and three modes.                                                        *)
(***************************************************************************)
ConfigMode(u) ==
    CASE ~u.parses -> "invalid"
      [] [root |-> u.root, cert |-> u.cert, key |-> u.key] # NoFiles -> "invalid"
      [] u.sslmode \in {"prefer", "disable", "require"} -> u.sslmode
      [] u.sslmode = "unset" -> "prefer"
      [] OTHER -> "invalid"

(***************************************************************************)
(* The string handed to it: keywords get "sslmode=require " in front, and  *)
(* a later sslmode of theirs wins.                                         *)
(***************************************************************************)
ConfigInput(u) ==
    IF u.form # "keywords" THEN Retained(u)
    ELSE IF u.sslmode = "unset" THEN [u EXCEPT !.sslmode = "require"]
    ELSE u

\* effective_ssl_mode: a certificate of one's own to trust makes TLS required.
EffectiveSslMode(mode, files) ==
    CASE files.root = "none" -> mode
      [] mode = "disable" -> "invalid"
      [] OTHER -> "require"

\* load_root_store and load_certificates.
RootsLoad(files) == IF files.root = "none" THEN NativeRoots ELSE files.root = "good"

\* ClientAuth: both the certificate and its key, or neither.
ClientAuthLoads(files) == <<files.cert, files.key>> \in {<<"none", "none">>, <<"good", "good">>}

\* build_tls_connector
TlsConnector(mode, files) ==
    CASE EffectiveSslMode(mode, files) = "disable" -> "NoTls"
      [] ~ClientAuthLoads(files) -> "invalid"
      [] ~RootsLoad(files) -> "invalid"
      [] OTHER -> "Rustls"

(***************************************************************************)
(* prepare_connection, also what validate_connection_uri runs: the mode    *)
(* and the connector, or Invalid for each of its errors.                   *)
(***************************************************************************)
Prepared(u) ==
    LET stripped == Stripped(u)
        parsed   == ConfigMode(ConfigInput(u))
        mode     == IF stripped.mode = "unknown" THEN parsed ELSE stripped.mode
        ssl      == EffectiveSslMode(mode, stripped.files)
        tls      == TlsConnector(ssl, stripped.files)
    IN  IF "invalid" \in {parsed, mode, ssl, tls} THEN Invalid ELSE [mode |-> ssl, tls |-> tls]

Validates(u) == Prepared(u) # Invalid
=============================================================================
