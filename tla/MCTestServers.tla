----------------------------- MODULE MCTestServers -----------------------------
(* TestServers with lists of one or two servers that cover every bridge, so  *)
(* that one script meets what another has left: among them two servers with  *)
(* one name, and a web service that is built and one that is downloaded.    *)
EXTENDS TestServers

Srv(p, v, l, d) == [platform |-> p, version |-> v, location |-> l, download |-> d]

MCTopologies ==
    {<<Srv("c_macos", 1, "localhost", FALSE), Srv("dotnet_macos", 1, "localhost", FALSE)>>,
     <<Srv("c_macos", Latest, "localhost", FALSE), Srv("c_android", Latest, "phone", FALSE)>>,
     <<Srv("jak_desktop", 1, "localhost", TRUE), Srv("swift_ios", 2, "ipad", TRUE)>>,
     <<Srv("jak_webservice", 2, "localhost", FALSE), Srv("swift_ios", 1, "iphone", FALSE)>>,
     <<Srv("dotnet_macos", Latest, "localhost", FALSE), Srv("js", 1, "localhost", FALSE)>>,
     <<Srv("jak_android", 1, "phone", FALSE)>>,
     <<Srv("jak_webservice", 1, "localhost", TRUE)>>}
=============================================================================
