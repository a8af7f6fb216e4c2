-------------------------- MODULE MCWarehouseLoads --------------------------
(* Instances of WarehouseLoads for TLC.                                    *)
EXTENDS WarehouseLoads, TLC

CONSTANTS api, cron, a, c, d, x, y, n, p, q

\* One scrape of the API; a CronJob of one page, or of two.
OneEach == (a :> api) @@ (c :> cron)
TwoForCron == OneEach @@ (d :> cron)

\* Two pages whose paths flatten to the same name (/x/y_z and /x_y/z).
SamePath == (p :> "same") @@ (q :> "same")

\* The API and the CronJob scrape the same page, and the CronJob another.
Rescrape == {(a :> p) @@ (c :> p) @@ (d :> q)}

\* Two different pages.
OtherPages == {(a :> p) @@ (c :> q)}

\* Opposite orders of the same tracks, on a page that loses one of them and on a page
\* with a track without url, which may also be empty.
Overlapping == (p :> {<<x, y>>, <<y>>}) @@ (q :> {<<y, n, x>>, <<>>})
=============================================================================
