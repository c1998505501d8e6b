----------------------------- MODULE MCIngestion -----------------------------
(* Small instances of Ingestion. *)
EXTENDS Ingestion

CONSTANTS cProse, cBlank, cDiagram, cScan, cBinary, cEmpty

\* cProse: a text with a gap in its chunk indexes; cBlank: only white space;
\* cDiagram: an image with two labels; cScan: a PDF of two pages, 10 MiB;
\* cBinary: bytes that are neither text nor an image.
MCContents == {cProse, cBlank, cDiagram, cScan, cBinary, cEmpty}

MCSize == [c \in MCContents |->
              IF c = cEmpty THEN 0 ELSE IF c = cScan THEN 2 ELSE 1]

MCFormat == [c \in MCContents |->
                CASE c = cDiagram -> "image" [] c = cScan -> "pdf"
                  [] c = cBinary -> "binary" [] OTHER -> "text"]

MCTextSpans == [c \in MCContents |-> IF c = cProse THEN <<0, 2>> ELSE <<>>]

MCOcrRegions == [c \in MCContents |->
                    CASE c = cDiagram -> <<2>> [] c = cScan -> <<1, 2>> [] OTHER -> <<>>]

Req(suffix, mime, content) == [suffix |-> suffix, mime |-> mime, content |-> content]

\* Ordinary uploads, and what the suffix and mime checks let through.
MCRequests ==
    {Req(".md", "text/plain", cProse), Req(".md", "image/png", cProse),
     Req(".md", "text/plain", cBlank), Req(".md", "text/plain", cBinary),
     Req(".md", "text/plain", cEmpty), Req(".md", "application/pdf", cScan),
     Req(".png", "image/png", cDiagram), Req(".png", "application/pdf", cDiagram),
     Req(".pdf", "application/pdf", cScan), Req(".exe", "text/plain", cProse)}

\* The same bytes uploaded again and again, and one diagram.
RetryRequests ==
    {Req(".md", "text/plain", cProse), Req(".pdf", "application/pdf", cScan)}
=============================================================================
