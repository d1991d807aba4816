----------------------------- MODULE MCPlanning -----------------------------
(* The instance of Planning that TLC checks.                               *)
EXTENDS Planning

Pdf  == {"pdf"}
Page == {"page"}
Txt  == {"txt"}
Path == {"file-path"}

Arg(media, stdin, isSeq, required, hasDefault) ==
    [media |-> media, stdin |-> stdin, isSeq |-> isSeq, required |-> required,
     hasDefault |-> hasDefault]

Tagged(in, out, tag) == CapUrn(in, out, [t \in {tag} |-> AnyValue])
Cap(urn, args, outSeq) == [urn |-> urn, args |-> args, outputIsSeq |-> outSeq]

\* A file-path argument that may come from stdin, and one that may not.
Chainable(in, seq) == Arg(Path, {in}, seq, TRUE, FALSE)
FileOnly           == Arg(Path, {}, FALSE, TRUE, FALSE)
Language           == Arg({"lang"}, {}, FALSE, TRUE, FALSE)
Quality            == Arg({"quality"}, {}, FALSE, FALSE, TRUE)
Hint               == Arg({"hint"}, {}, FALSE, FALSE, FALSE)

Split   == Cap(Tagged(Pdf, Page, "split"), <<Chainable(Pdf, FALSE)>>, TRUE)
Crop    == Cap(Tagged(Page, Page \cup {"crop"}, "crop"), <<Chainable(Page, FALSE), Hint>>, TRUE)
Ocr     == Cap(Tagged(Page, Txt, "ocr"), <<Chainable(Page, FALSE), Language>>, FALSE)
Extract == Cap(Tagged(Pdf, Txt, "extract"), <<FileOnly, Quality>>, FALSE)
Join    == Cap(Tagged(Txt, Pdf, "join"), <<Arg(Txt, {Txt}, TRUE, TRUE, FALSE)>>, FALSE)
Render  == Cap(Tagged(Txt, Page, "render"), <<Arg({"style"}, {Txt}, FALSE, TRUE, TRUE)>>, FALSE)
Lines   == Cap(Tagged(Txt, Txt, "lines"), <<Chainable(Txt, FALSE)>>, TRUE)
Discard == Cap(CapUrn(Media, {"void"}, NoTags), <<>>, FALSE)

MCCatalogs == {<<Split, Crop, Ocr, Discard>>, <<Split, Ocr, Extract, Join>>,
               <<Extract, Render, Lines, Join>>}
MCEndpoints == {Pdf, Page} \X {Txt, Pdf} \cup {<<Txt, Txt>>, <<Pdf, Page>>}
=============================================================================
