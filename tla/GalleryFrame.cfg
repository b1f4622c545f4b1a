CONSTANTS
    Objects <- MCObjects
    MenuButton = "menu"
    Actions <- MCActions
    Menus <- MCMenus
SPECIFICATION Spec
INVARIANT TypeOK
INVARIANT MenuShownIsCurrent
INVARIANT StaleMenusDoomed
PROPERTY ClickFromPress
