---------------------------- MODULE MCHttpServer ----------------------------
(* The instances of HttpServer that TLC checks.                            *)
EXTENDS HttpServer

Plain == [method |-> "GET", path |-> "/", query |-> FALSE, version |-> "HTTP/1.1",
          connection |-> "none", bare |-> FALSE, body |-> FALSE]

\* Kept open; kept open on HTTP/1.0 because the client asks for it, with a query;
\* closed because of the version; closed because the client asks for it; the
\* same behind a line without a colon; with a body; not found; malformed.
AllKinds ==
    {Plain,
     [Plain EXCEPT !.query = TRUE, !.version = "HTTP/1.0", !.connection = "Keep-Alive"],
     [Plain EXCEPT !.method = "HEAD", !.version = "HTTP/1.0"],
     [Plain EXCEPT !.connection = "close"],
     [Plain EXCEPT !.connection = "close", !.bare = TRUE],
     [Plain EXCEPT !.method = "POST", !.body = TRUE],
     [Plain EXCEPT !.path = "/x"],
     [Plain EXCEPT !.version = "HTTP/1.2"]}
=============================================================================
