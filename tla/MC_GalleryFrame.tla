--------------------------- MODULE MC_GalleryFrame ---------------------------
EXTENDS GalleryFrame, TLC

\* The next button and the menu button; two menu actions; three menus, so
\* a menu is replaced after another was closed or hidden.
MCObjects == {"next", "menu"}
MCActions == {"goto", "copy"}
MCMenus == 1..2
=============================================================================
