------------------------------ MODULE MCCrawlJobs ------------------------------
(* A small site: pages that link to each other and to themselves, a file to  *)
(* skip, and a page on another host that is linked and can be entered.       *)
EXTENDS CrawlJobs, TLC

MCPages == {"home", "a", "b", "logo.png", "partner"}
MCHost == [p \in MCPages |-> IF p = "partner" THEN "other" ELSE "site"]
MCLinks ==
    [p \in MCPages |->
        CASE p = "home" -> <<"a", "b", "logo.png", "a">>
          [] p = "a"    -> <<"home", "b", "a">>
          [] p = "b"    -> <<"partner", "home">>
          [] OTHER      -> <<"b">>]
MCStart == [j \in Jobs |-> "home"]
=============================================================================
